---- MODULE Spec2Model ----
(***************************************************************************)
(* Session mode router of the coding-agent front end.                      *)
(*                                                                         *)
(* One session record is followed through a sequence of inbound messages.  *)
(* Each message is handled by getReplyFromConfig: the channel-label check  *)
(* (implicit entry, with migration), the !code command handler, the !rate  *)
(* command, the forwarding of the message to the active backend, and       *)
(* finally the normal agent pipeline.                                      *)
(*                                                                         *)
(* Text is a sequence of atoms.  An atom is either one character that the  *)
(* code looks at ("/", "~", ".", "#", "-", ":", " ") or a run of ordinary  *)
(* characters ("!code", "exit", "p", ...).  The JavaScript value undefined *)
(* and the empty string are both the empty sequence: the code only tests   *)
(* these fields for truthiness and never stores an empty string.           *)
(***************************************************************************)
EXTENDS Integers, Sequences, FiniteSets, TLC

\* ---------------------------------------------------------------- text

WS == " "

Undefined == <<>>

\* String.prototype.toLowerCase on one atom.
LowerAtom(a) ==
  CASE a = "!CODE" -> "!code"
    [] a = "!OC" -> "!oc"
    [] a = "EXIT" -> "exit"
    [] a = "Switch" -> "switch"
    [] a = "MODEL" -> "model"
    [] a = "Claude" -> "claude"
    [] a = "CODEX" -> "codex"
    [] a = "!Plan" -> "!plan"
    [] a = "!BUILD" -> "!build"
    [] OTHER -> a

toLowerCase(s) == [i \in 1..Len(s) |-> LowerAtom(s[i])]

RECURSIVE trimStart(_)
trimStart(s) ==
  IF s # <<>> /\ Head(s) = WS THEN trimStart(Tail(s)) ELSE s

RECURSIVE trimEnd(_)
trimEnd(s) ==
  IF s # <<>> /\ s[Len(s)] = WS THEN trimEnd(SubSeq(s, 1, Len(s) - 1)) ELSE s

\* String.prototype.trim
trim(s) == trimEnd(trimStart(s))

\* String.prototype.startsWith for a prefix that is one atom.
startsWith(s, a) == s # <<>> /\ Head(s) = a

\* s.split(sep) without the empty pieces, for a separator atom; runs of the
\* separator count as one (split(/\s+/) on a trimmed string, and the
\* non-empty segments of a path).
RECURSIVE splitOn(_, _, _, _)
splitOn(s, sep, cur, acc) ==
  IF s = <<>> THEN (IF cur = <<>> THEN acc ELSE Append(acc, cur))
  ELSE IF Head(s) = sep
       THEN splitOn(Tail(s), sep, <<>>, IF cur = <<>> THEN acc ELSE Append(acc, cur))
       ELSE splitOn(Tail(s), sep, Append(cur, Head(s)), acc)

split(s, sep) == splitOn(s, sep, <<>>, <<>>)

\* Array.prototype.join with a one-atom separator.
RECURSIVE join(_, _)
join(parts, sep) ==
  IF parts = <<>> THEN <<>>
  ELSE IF Len(parts) = 1 THEN parts[1]
  ELSE parts[1] \o <<sep>> \o join(Tail(parts), sep)

\* ---------------------------------------------------------------- paths

\* os.homedir() and process.cwd(): absolute, normalized directories.
HomeDir == <<"/", "home">>
Cwd == <<"/", "srv">>
\* workspace.dir of the agent workspace.
WorkspaceDir == <<"/", "ws">>

DotDot == <<".", ".">>
Dot == <<".">>

\* normalizeString of node:path (posix): resolves "." and ".." segments.
RECURSIVE normalizeSegments(_, _, _)
normalizeSegments(segs, stack, allowAboveRoot) ==
  IF segs = <<>> THEN stack
  ELSE LET seg == Head(segs) rest == Tail(segs) IN
       IF seg = Dot THEN normalizeSegments(rest, stack, allowAboveRoot)
       ELSE IF seg = DotDot
            THEN IF stack # <<>> /\ stack[Len(stack)] # DotDot
                 THEN normalizeSegments(rest, SubSeq(stack, 1, Len(stack) - 1), allowAboveRoot)
                 ELSE IF allowAboveRoot
                      THEN normalizeSegments(rest, Append(stack, seg), allowAboveRoot)
                      ELSE normalizeSegments(rest, stack, allowAboveRoot)
            ELSE normalizeSegments(rest, Append(stack, seg), allowAboveRoot)

isAbsolute(p) == startsWith(p, "/")

\* The normalized segments of p joined again; p is absolute with abs.
normalizedBody(p, abs) == join(normalizeSegments(split(p, "/"), <<>>, ~abs), "/")

\* The path that path.normalize builds from the joined segments.
normalizeFrom(body, abs, trailing) ==
  IF body = <<>>
  THEN (IF abs THEN <<"/">> ELSE IF trailing THEN <<".", "/">> ELSE Dot)
  ELSE (IF abs THEN <<"/">> ELSE <<>>) \o body \o (IF trailing THEN <<"/">> ELSE <<>>)

\* path.normalize (posix): keeps a trailing slash.
normalize(p) ==
  IF p = <<>> THEN Dot
  ELSE normalizeFrom(normalizedBody(p, isAbsolute(p)), isAbsolute(p), p[Len(p)] = "/")

\* path.join(a, b) (posix) for a non-empty a.
pathJoin(a, b) == normalize(IF b = <<>> THEN a ELSE a \o <<"/">> \o b)

\* path.resolve(base, p) (posix) for an absolute base: no trailing slash.
pathResolve(base, p) ==
  <<"/">> \o normalizedBody(IF isAbsolute(p) THEN p ELSE base \o <<"/">> \o p, TRUE)

\* The expansion of a leading ~ in the trimmed path t.
expandHome(t) ==
  IF startsWith(t, "~")
  THEN IF t = <<"~">> THEN HomeDir
       ELSE pathJoin(HomeDir, SubSeq(t, IF Len(t) >= 2 /\ t[2] = "/" THEN 3 ELSE 2, Len(t)))
  ELSE t

\* The normalized path if it is absolute, else resolved against the
\* working directory.
absolutePath(normalized) ==
  IF isAbsolute(normalized) THEN normalized ELSE pathResolve(Cwd, normalized)

\* validateProjectDir without the test for whitespace-only input.
validateProjectDir_emptyOnly(projectDir) ==
  IF projectDir = <<>> THEN Undefined
  ELSE absolutePath(normalize(expandHome(trim(projectDir))))

\* validateProjectDir: null (here Undefined) for blank input, else the
\* absolute path of the input with a leading ~ expanded.
validateProjectDir(projectDir) ==
  IF projectDir = <<>> \/ trim(projectDir) = <<>> THEN Undefined
  ELSE absolutePath(normalize(expandHome(trim(projectDir))))

RECURSIVE stripTrailingSlashes(_)
stripTrailingSlashes(p) ==
  IF p # <<>> /\ p[Len(p)] = "/" THEN stripTrailingSlashes(SubSeq(p, 1, Len(p) - 1)) ELSE p

\* path.basename (posix) of a path without trailing slashes.
basename(p) ==
  LET segs == split(p, "/") IN IF segs = <<>> THEN <<>> ELSE segs[Len(segs)]

getRepoName(projectDir) ==
  IF projectDir = <<>> THEN <<"unknown">>
  ELSE LET b == basename(stripTrailingSlashes(projectDir))
       IN IF b = <<>> THEN <<"unknown">> ELSE b

\* ---------------------------------------------------------------- parser

DEFAULT_OPENCODE_AGENT == <<"build">>

commandPrefix == "!code"

\* The command where the parser returns null.
NoCommand == [action |-> "none", value |-> <<>>]

\* value || fallback
orElse(value, fallback) == IF value = <<>> THEN fallback ELSE value

\* parseParts that compares the first part as it was written.
parseParts_caseSensitive(parts) ==
  LET firstPart == IF parts = <<>> THEN <<>> ELSE parts[1]
  IN IF firstPart = <<"exit">> THEN [action |-> "exit", value |-> <<>>]
     ELSE IF firstPart = <<"switch">>
     THEN [action |-> "switch",
           value |-> orElse(trim(join(Tail(parts), WS)), DEFAULT_OPENCODE_AGENT)]
     ELSE IF firstPart = <<"model">>
     THEN [action |-> "model", value |-> trim(join(Tail(parts), WS))]
     ELSE IF parts # <<>>
     THEN [action |-> "enter", value |-> trim(join(parts, WS))]
     ELSE NoCommand

\* The command of the whitespace-separated parts after the prefix.
parseParts(parts) ==
  LET firstPart == IF parts = <<>> THEN <<>> ELSE toLowerCase(parts[1])
  IN IF firstPart = <<"exit">> THEN [action |-> "exit", value |-> <<>>]
     ELSE IF firstPart = <<"switch">>
     THEN [action |-> "switch",
           value |-> orElse(trim(join(Tail(parts), WS)), DEFAULT_OPENCODE_AGENT)]
     ELSE IF firstPart = <<"model">>
     THEN [action |-> "model", value |-> trim(join(Tail(parts), WS))]
     ELSE IF parts # <<>>
     THEN [action |-> "enter", value |-> trim(join(parts, WS))]
     ELSE NoCommand

\* parseNormalized that takes "!plan" and "!build" without the space after
\* them.
parseNormalized_noSpace(normalized, lowered) ==
  IF normalized = <<commandPrefix>> THEN NoCommand
  ELSE IF ~startsWith(lowered, commandPrefix)
  THEN IF startsWith(lowered, "!plan")
       THEN [action |-> "plan", value |-> trim(Tail(normalized))]
       ELSE IF startsWith(lowered, "!build")
       THEN [action |-> "build", value |-> trim(Tail(normalized))]
       ELSE NoCommand
  ELSE parseParts(split(trim(Tail(normalized)), WS))

\* parseOpencodeCommand on the trimmed body and its lower case.
parseNormalized(normalized, lowered) ==
  IF normalized = <<commandPrefix>> THEN NoCommand
  ELSE IF ~startsWith(lowered, commandPrefix)
  THEN IF startsWith(lowered, "!plan") /\ Len(lowered) >= 2 /\ lowered[2] = WS
       THEN [action |-> "plan", value |-> trim(Tail(normalized))]
       ELSE IF startsWith(lowered, "!build") /\ Len(lowered) >= 2 /\ lowered[2] = WS
       THEN [action |-> "build", value |-> trim(Tail(normalized))]
       ELSE NoCommand
  ELSE parseParts(split(trim(Tail(normalized)), WS))

\* parseOpencodeCommand: action is "none" where the code returns null.
parseOpencodeCommand(body) == parseNormalized(trim(body), toLowerCase(trim(body)))

\* ---------------------------------------------------------------- session record

Backends == {"opencode", "claude", "codex"}

\* The mode fields of SessionEntry, and updatedAt.
EmptyEntry ==
  [opencodeMode |-> FALSE, opencodeProjectDir |-> Undefined, opencodeAgent |-> Undefined,
   opencodeModel |-> Undefined, opencodeResponsePrefix |-> Undefined,
   claudeCodeMode |-> FALSE, claudeCodeProjectDir |-> Undefined, claudeCodeAgent |-> Undefined,
   claudeCodeModel |-> Undefined, claudeCodeResponsePrefix |-> Undefined,
   codexMode |-> FALSE, codexProjectDir |-> Undefined, codexAgent |-> Undefined,
   codexModel |-> Undefined, codexResponsePrefix |-> Undefined,
   origin |-> [label |-> <<>>],
   updatedAt |-> 0]

ModeFlag(e, b) ==
  CASE b = "opencode" -> e.opencodeMode
    [] b = "claude" -> e.claudeCodeMode
    [] b = "codex" -> e.codexMode

ProjectDirOf(e, b) ==
  CASE b = "opencode" -> e.opencodeProjectDir
    [] b = "claude" -> e.claudeCodeProjectDir
    [] b = "codex" -> e.codexProjectDir

AgentOf(e, b) ==
  CASE b = "opencode" -> e.opencodeAgent
    [] b = "claude" -> e.claudeCodeAgent
    [] b = "codex" -> e.codexAgent

ModelOf(e, b) ==
  CASE b = "opencode" -> e.opencodeModel
    [] b = "claude" -> e.claudeCodeModel
    [] b = "codex" -> e.codexModel

ResponsePrefixOf(e, b) ==
  CASE b = "opencode" -> e.opencodeResponsePrefix
    [] b = "claude" -> e.claudeCodeResponsePrefix
    [] b = "codex" -> e.codexResponsePrefix

\* `[${backend}:${project}|${agent}]`
responsePrefixText(backend, project, agent) ==
  <<"[", backend, ":">> \o project \o <<"|">> \o agent \o <<"]">>

\* currentModeOf that takes the session for one in opencode mode always.
currentModeOf_always(e) == "opencode"

\* The currentMode expression of the command handlers: the first flag
\* that is set, in the order opencode, claude, codex; "none" for null.
currentModeOf(e) ==
  IF e.opencodeMode THEN "opencode"
  ELSE IF e.claudeCodeMode THEN "claude"
  ELSE IF e.codexMode THEN "codex"
  ELSE "none"

\* ClearAllModes that leaves the agent and the response prefix of opencode.
ClearAllModes_keepAgent(e) ==
  [e EXCEPT !.opencodeMode = FALSE, !.opencodeProjectDir = Undefined,
            !.opencodeModel = Undefined,
            !.claudeCodeMode = FALSE, !.claudeCodeProjectDir = Undefined,
            !.claudeCodeAgent = Undefined, !.claudeCodeModel = Undefined,
            !.claudeCodeResponsePrefix = Undefined,
            !.codexMode = FALSE, !.codexProjectDir = Undefined,
            !.codexAgent = Undefined, !.codexModel = Undefined,
            !.codexResponsePrefix = Undefined]

\* The assignments of the exit branch.
ClearAllModes(e) ==
  [e EXCEPT !.opencodeMode = FALSE, !.opencodeProjectDir = Undefined,
            !.opencodeAgent = Undefined, !.opencodeModel = Undefined,
            !.opencodeResponsePrefix = Undefined,
            !.claudeCodeMode = FALSE, !.claudeCodeProjectDir = Undefined,
            !.claudeCodeAgent = Undefined, !.claudeCodeModel = Undefined,
            !.claudeCodeResponsePrefix = Undefined,
            !.codexMode = FALSE, !.codexProjectDir = Undefined,
            !.codexAgent = Undefined, !.codexModel = Undefined,
            !.codexResponsePrefix = Undefined]

\* The assignments of the enter branch for a resolved directory and the
\* agent that is kept or defaulted.
EnterOpencode(e, projectDir, agent) ==
  [e EXCEPT !.opencodeMode = TRUE, !.opencodeProjectDir = projectDir,
            !.opencodeAgent = agent,
            !.opencodeResponsePrefix =
              responsePrefixText("opencode", getRepoName(projectDir), agent)]

\* What a command handler returns: the entry afterwards, the number of
\* store writes, the reply (<<"null">> where the code returns null) and
\* the parsed command.
Kept(e, reply, parsed) == [entry |-> e, saves |-> 0, reply |-> reply, parsed |-> parsed]

\* A branch that changes the entry and returns with no store write.
Saved_memoryOnly(x, now, reply, parsed) ==
  [entry |-> x, saves |-> 0, reply |-> reply, parsed |-> parsed]

\* persistSessionEntry, or the store write of the direct handler, on the
\* changed entry x at time now.
Saved(x, now, reply, parsed) ==
  [entry |-> [x EXCEPT !.updatedAt = now], saves |-> 1, reply |-> reply, parsed |-> parsed]

\* The exit branch of both handlers.
exitBranch(e, parsed, now) == Saved(ClearAllModes(e), now, <<"exited">>, parsed)

\* The model branch of both handlers, in a coding mode.
modelBranch(e, parsed, now) ==
  IF parsed.value = <<>>
  THEN Saved([e EXCEPT !.opencodeModel = Undefined], now, <<"modelCleared">>, parsed)
  ELSE Saved([e EXCEPT !.opencodeModel = parsed.value], now,
             <<"modelSet", parsed.value>>, parsed)

\* The enter branch of both handlers for projectDir, the result of
\* validateProjectDir on the value of the command.
enterBranch(e, projectDir, parsed, now) ==
  IF projectDir = Undefined THEN Kept(e, <<"invalidDir">>, parsed)
  ELSE Saved(EnterOpencode(e, projectDir, orElse(e.opencodeAgent, DEFAULT_OPENCODE_AGENT)),
             now,
             <<"entered", projectDir, orElse(e.opencodeAgent, DEFAULT_OPENCODE_AGENT),
               e.opencodeModel>>,
             parsed)

\* The branches of handleOpencodeCommandDirect on the parsed command, for
\* the session entry e at time now.
routeCommandDirect(e, parsed, now) ==
  CASE parsed.action = "none" -> Kept(e, <<"help">>, parsed)
    [] parsed.action = "exit" -> exitBranch(e, parsed, now)
    [] parsed.action = "switch" ->
         IF currentModeOf(e) = "none" THEN Kept(e, <<"notInMode", "coding">>, parsed)
         ELSE Saved([e EXCEPT !.opencodeAgent = orElse(parsed.value, DEFAULT_OPENCODE_AGENT)],
                    now, <<"agentSet", orElse(parsed.value, DEFAULT_OPENCODE_AGENT)>>, parsed)
    [] parsed.action = "model" ->
         IF currentModeOf(e) = "none" THEN Kept(e, <<"notInMode", "opencode">>, parsed)
         ELSE modelBranch(e, parsed, now)
    [] parsed.action = "enter" ->
         enterBranch(e, validateProjectDir(parsed.value), parsed, now)
    [] OTHER -> Kept(e, <<"null">>, parsed)

\* handleOpencodeCommandDirect that takes every command body for a path
\* to enter.
handleOpencodeCommandDirect_enterOnly(e, commandBody, now) ==
  routeCommandDirect(e, [action |-> "enter", value |-> trim(commandBody)], now)

\* handleOpencodeCommandDirect: the command body is parsed, and the
\* branch of the parsed command runs.
handleOpencodeCommandDirect(e, commandBody, now) ==
  routeCommandDirect(e, parseOpencodeCommand(commandBody), now)

\* The switch branch of handleOpencodeCommand, in a coding mode, for the
\* agent of the command.
switchBranch(e, agent, parsed, now) ==
  Saved([e EXCEPT !.opencodeAgent = agent,
                  !.opencodeResponsePrefix =
                    responsePrefixText("opencode",
                                       IF e.opencodeProjectDir # Undefined
                                       THEN getRepoName(e.opencodeProjectDir)
                                       ELSE <<"unknown">>,
                                       agent)],
        now, <<"agentSet", agent>>, parsed)

\* The branches of handleOpencodeCommand on the parsed command.
routeCommand(e, parsed, now) ==
  CASE parsed.action = "exit" -> exitBranch(e, parsed, now)
    [] parsed.action = "switch" ->
         IF currentModeOf(e) = "none" THEN Kept(e, <<"notInMode", "coding">>, parsed)
         ELSE switchBranch(e, orElse(parsed.value, DEFAULT_OPENCODE_AGENT), parsed, now)
    [] parsed.action = "model" ->
         IF currentModeOf(e) = "none" THEN Kept(e, <<"notInMode", "coding">>, parsed)
         ELSE modelBranch(e, parsed, now)
    [] parsed.action = "enter" ->
         enterBranch(e, validateProjectDir(parsed.value), parsed, now)
    [] OTHER -> Kept(e, <<"help">>, parsed)

\* handleOpencodeCommand, the handler registered with the command pipeline.
\* The reply is <<"null">> where the handler declines the message and
\* <<"ignored">> for an unauthorized sender.
handleOpencodeCommand(e, commandBodyNormalized, allowTextCommands, isAuthorizedSender, now) ==
  IF ~allowTextCommands THEN Kept(e, <<"null">>, NoCommand)
  ELSE IF ~startsWith(toLowerCase(trim(commandBodyNormalized)), commandPrefix)
  THEN Kept(e, <<"null">>, NoCommand)
  ELSE IF ~isAuthorizedSender
  THEN Kept(e, <<"ignored">>, parseOpencodeCommand(commandBodyNormalized))
  ELSE routeCommand(e, parseOpencodeCommand(commandBodyNormalized), now)

\* ---------------------------------------------------------------- backend adapters

\* How a backend subprocess can end.
Outcomes == {"ok", "spawnError", "timeout", "exitStderr", "exitNoStderr"}

\* The two glyphs the adapters put before an error and before stderr.
ErrorGlyph == "cross"
WarnGlyph == "warn"

\* err.message of a failed spawn, and what the subprocess wrote to stderr.
SpawnMessage == <<"spawn failed">>
StderrRaw == <<"stderr">>

TimedOutText == <<"timer", "Command timed out.">>
SpawnErrorText == <<ErrorGlyph, "Error:">> \o SpawnMessage
StderrText == <<WarnGlyph>> \o StderrRaw

\* runCommand that reports every exit code other than 0 as an error.
runCommand_failOnExitCode(outcome, stdout) ==
  CASE outcome = "timeout" -> [text |-> <<>>, error |-> TimedOutText]
    [] outcome \in {"exitStderr", "exitNoStderr"} -> [text |-> stdout, error |-> StderrText]
    [] outcome = "spawnError" -> [text |-> <<>>, error |-> SpawnErrorText]
    [] OTHER -> [text |-> stdout, error |-> <<>>]

\* runOpencodeCommand, runClaudeCodeCommand, runCodexCommand: the result
\* {text, error} for a subprocess that ended with outcome and wrote stdout.
runCommand(outcome, stdout) ==
  CASE outcome = "timeout" -> [text |-> <<>>, error |-> TimedOutText]
    [] outcome = "exitStderr" -> [text |-> stdout, error |-> StderrText]
    [] outcome = "spawnError" -> [text |-> <<>>, error |-> SpawnErrorText]
    [] OTHER -> [text |-> stdout, error |-> <<>>]

\* run...CommandStreaming: everything passed to onChunk, and the error.
runCommandStreaming(outcome, stdout) ==
  CASE outcome = "timeout" -> [output |-> stdout, error |-> TimedOutText]
    [] outcome = "exitStderr" -> [output |-> stdout \o <<"\n">> \o StderrText, error |-> StderrRaw]
    [] outcome = "spawnError" -> [output |-> <<"\n">> \o SpawnErrorText, error |-> SpawnMessage]
    [] OTHER -> [output |-> stdout, error |-> <<>>]

\* One started backend process.
Invocation(backend, message, projectDir, agent, model, purpose, streaming, outcome) ==
  [backend |-> backend, message |-> message, projectDir |-> projectDir, agent |-> agent,
   model |-> model, purpose |-> purpose, streaming |-> streaming, outcome |-> outcome]

\* ---------------------------------------------------------------- streaming adapter and relay

\* OPENCODE_TIMEOUT_MS, CLAUDE_CODE_TIMEOUT_MS and CODEX_TIMEOUT_MS.
OPENCODE_TIMEOUT_MS == 300000

\* The relay edits the message when this many milliseconds have passed
\* since the last edit, and shows this many characters.
FlushIntervalMs == 1000
DisplayLimit == 3000

\* Text whose length matters is a sequence of runs: n times the character
\* c, no two neighbours with the same character.
Run(c, n) == [c |-> c, n |-> n]

\* t + u: the last run of t and the first of u become one run when they
\* are of the same character.
concat(t, u) ==
  IF t # <<>> /\ u # <<>> /\ t[Len(t)].c = u[1].c
  THEN SubSeq(t, 1, Len(t) - 1) \o <<Run(u[1].c, t[Len(t)].n + u[1].n)>> \o Tail(u)
  ELSE t \o u

\* The length of t from its run i on.
RECURSIVE lengthFrom(_, _)
lengthFrom(t, i) == IF i > Len(t) THEN 0 ELSE t[i].n + lengthFrom(t, i + 1)

\* t.length
length(t) == lengthFrom(t, 1)

\* t.slice(-k) for k > 0, cut in the run first at which the text from
\* there on has k characters.
sliceAt(t, k, first) ==
  <<Run(t[first].c, k - lengthFrom(t, first + 1))>> \o SubSeq(t, first + 1, Len(t))

\* t.slice(-k) for k > 0
sliceLast(t, k) ==
  IF length(t) <= k THEN t
  ELSE sliceAt(t, k, CHOOSE i \in 1..Len(t) :
                       lengthFrom(t, i) >= k /\ lengthFrom(t, i + 1) < k)

\* t.includes(glyph)
includes(t, glyph) == \E i \in 1..Len(t) : t[i].c = glyph

\* The chunks the adapter passes to onChunk on a spawn error and on an
\* exit with stderr: "\n" + glyph + text.
SpawnErrorChunk == <<Run("\n", 1), Run(ErrorGlyph, 1), Run(" Error: spawn failed", 20)>>
StderrChunk == <<Run("\n", 1), Run(WarnGlyph, 2), Run(" stderr", 7)>>

\* The result of a streaming adapter call: the promise is pending, or
\* settled with {error}.
Pending == [settled |-> FALSE, error |-> <<>>]

NoProcess ==
  [child |-> "none", timer |-> "none", started |-> 0, killed |-> FALSE,
   stderr |-> <<>>, chunks |-> 0, code |-> 0, result |-> Pending,
   settledBy |-> "none", resolveCalls |-> 0]

\* resolve that lets a later call replace the result.
settle_overwrite(p, by, error) ==
  [p EXCEPT !.resolveCalls = @ + 1,
            !.result = [settled |-> TRUE, error |-> error],
            !.settledBy = by]

\* resolve({error}) called by the event by: only the first call settles
\* the promise.
settle(p, by, error) ==
  [p EXCEPT !.resolveCalls = @ + 1,
            !.result = IF @.settled THEN @ ELSE [settled |-> TRUE, error |-> error],
            !.settledBy = IF p.result.settled THEN @ ELSE by]

\* clearTimeout(timeout)
clearTimeout(p) == [p EXCEPT !.timer = IF @ = "armed" THEN "cleared" ELSE @]

\* The relay of the forwarding blocks: "prefixed" is the one of
\* commands-opencode 2.ts, "bare" the one of get-reply.ts.
RelayVariants == {"prefixed", "bare"}

\* sessionEntry.opencodeResponsePrefix of the session the relay runs for.
RelayPrefix == <<Run("[opencode:q|build]", 18)>>

NoChunk ==
  [delivered |-> FALSE, chunk |-> <<>>, at |-> 0, since |-> 0, edited |-> FALSE,
   edit |-> <<>>, afterEdit |-> FALSE, previousEdit |-> 0]

\* What the final edit of a relay found: the time, the number of edits
\* including itself, and the chunks delivered until then.
NoFlush == [done |-> FALSE, at |-> 0, edits |-> 0, timeDue |-> 0, outOfBand |-> 0,
            urgentChunks |-> 0]

\* timeDue counts the chunks delivered a flush interval or more after
\* lastUpdate, urgentChunks the chunks with a marker and outOfBand those of
\* them delivered earlier than that; lastEditAt is the time of the last edit.
\* The edits are numbered as they are issued: inFlight holds the calls of
\* editSlackMessage that have not completed, applied the edit the chat
\* shows.
NoRelay ==
  [variant |-> "none", caller |-> "idle", fullOutput |-> <<>>, lastUpdate |-> 0,
   edits |-> 0, shown |-> <<>>, final |-> <<>>, lastChunk |-> NoChunk,
   timeDue |-> 0, outOfBand |-> 0, urgentChunks |-> 0, lastEditAt |-> 0,
   flush |-> NoFlush, inFlight |-> {}, applied |-> 0]

\* The text of an edit that shows text.
display(variant, text) ==
  IF variant = "prefixed" THEN concat(concat(RelayPrefix, <<Run("\n", 1)>>), text)
  ELSE text

\* chunk holds one of the two markers.
urgent(chunk) == includes(chunk, ErrorGlyph) \/ includes(chunk, WarnGlyph)

\* flushDue that looks at the time alone.
flushDue_timeOnly(lastUpdate, chunk, now) == now - lastUpdate >= FlushIntervalMs

\* The gate of onChunk.
flushDue(lastUpdate, chunk, now) ==
  \/ now - lastUpdate >= FlushIntervalMs
  \/ includes(chunk, ErrorGlyph)
  \/ includes(chunk, WarnGlyph)

\* onChunk with full the output so far, flush the result of the gate and
\* text what an edit shows.
onChunkStep(r, chunk, now, full, flush, text) ==
  [r EXCEPT !.fullOutput = full,
            !.lastUpdate = IF flush THEN now ELSE @,
            !.edits = IF flush THEN @ + 1 ELSE @,
            !.inFlight = IF flush THEN @ \cup {r.edits + 1} ELSE @,
            !.shown = IF flush THEN text ELSE @,
            !.timeDue = IF now - r.lastUpdate >= FlushIntervalMs THEN @ + 1 ELSE @,
            !.outOfBand = IF urgent(chunk) /\ now - r.lastUpdate < FlushIntervalMs
                          THEN @ + 1 ELSE @,
            !.urgentChunks = IF urgent(chunk) THEN @ + 1 ELSE @,
            !.lastEditAt = IF flush THEN now ELSE @,
            !.lastChunk = [delivered |-> TRUE, chunk |-> chunk, at |-> now,
                           since |-> r.lastUpdate, edited |-> flush,
                           edit |-> IF flush THEN text ELSE <<>>,
                           afterEdit |-> r.edits > 0,
                           previousEdit |-> r.lastEditAt]]

\* onChunk with full the output so far.
onChunkFull(r, chunk, now, full) ==
  onChunkStep(r, chunk, now, full, flushDue(r.lastUpdate, chunk, now),
              display(r.variant, sliceLast(full, DisplayLimit)))

\* onChunk(chunk) of the relay r at time now.
onChunk(r, chunk, now) == onChunkFull(r, chunk, now, concat(r.fullOutput, chunk))

\* One synchronous adapter call that has returned.
NoSync ==
  [ran |-> FALSE, outcome |-> "none", stdout |-> <<>>,
   result |-> [text |-> <<>>, error |-> <<>>]]

\* ---------------------------------------------------------------- instruction log

\* recordUserInstruction summarizes when the log has more than this many
\* non-blank lines.
InstructionLogThreshold == 500

\* Non-blank lines of one log entry for a one-line instruction: the
\* heading, the instruction and the rule.
LinesPerEntry == 3

\* recordUserInstruction on a log file that holds lines non-blank lines:
\* append, then summarize and clear when the log exceeds the threshold.
recordUserInstruction(lines) ==
  LET lineCount == lines + LinesPerEntry
      over == lineCount > InstructionLogThreshold
  IN [lines |-> IF over THEN 0 ELSE lineCount, summarized |-> over]

SummarizePrompt(mode) == <<"Analyze the following user instructions", mode>>

\* ---------------------------------------------------------------- feedback counters

\* levelOrder
AutoLevels == <<"l0", "l1", "l2", "l3", "l4">>

indexOf(level) == CHOOSE i \in 1..Len(AutoLevels) : AutoLevels[i] = level

Min(a, b) == IF a <= b THEN a ELSE b

\* ratioLevel with the thresholds excluded.
ratioLevel_strict(totalAccepted, totalRequests) ==
  IF totalRequests <= 0 \/ 10 * totalAccepted < totalRequests THEN "l0"
  ELSE IF 10 * totalAccepted < 2 * totalRequests THEN "l1"
  ELSE IF 10 * totalAccepted < 4 * totalRequests THEN "l2"
  ELSE IF 10 * totalAccepted < 8 * totalRequests THEN "l3"
  ELSE "l4"

\* The level of ratio = totalRequests > 0 ? totalAccepted / totalRequests : 0
\* against 0.1, 0.2, 0.4 and 0.8; for counters of this size the quotient of
\* the doubles compares with the thresholds as the fraction does.
ratioLevel(totalAccepted, totalRequests) ==
  IF totalRequests <= 0 \/ 10 * totalAccepted <= totalRequests THEN "l0"
  ELSE IF 10 * totalAccepted <= 2 * totalRequests THEN "l1"
  ELSE IF 10 * totalAccepted <= 4 * totalRequests THEN "l2"
  ELSE IF 10 * totalAccepted <= 8 * totalRequests THEN "l3"
  ELSE "l4"

requestCap(totalRequests) ==
  IF totalRequests < 20 THEN "l0"
  ELSE IF totalRequests < 50 THEN "l1"
  ELSE IF totalRequests < 100 THEN "l2"
  ELSE "l4"

\* Math.round(ratio * 100) on doubles: the nearest integer; where the exact
\* value lies halfway between two integers the rounding errors of the
\* division and of the product decide between them (13 for 1/8, 57 for
\* 23/40).
percentages(totalAccepted, totalRequests) ==
  IF totalRequests <= 0 THEN {0}
  ELSE LET q == (100 * totalAccepted) \div totalRequests
           r == (100 * totalAccepted) % totalRequests
       IN IF 2 * r < totalRequests THEN {q}
          ELSE IF 2 * r > totalRequests THEN {q + 1}
          ELSE {q, q + 1}

\* USER_FEEDBACK_<MODE>.md: whether it exists, and its two counters.
FeedbackFile(requests, accepted) ==
  [exists |-> TRUE, requests |-> requests, accepted |-> accepted]

NoFeedbackFile == [exists |-> FALSE, requests |-> 0, accepted |-> 0]

\* The file that calculateAutoLevel writes where there is none.
InitialFeedbackFile == FeedbackFile(1, 0)

\* calculateAutoLevel on the feedback file, with percentage what Math.round
\* gave.
calculateAutoLevel(file, percentage) ==
  LET totalRequests == IF file.exists THEN file.requests ELSE 1
      totalAccepted == IF file.exists THEN file.accepted ELSE 0
  IN [level |-> AutoLevels[Min(indexOf(ratioLevel(totalAccepted, totalRequests)),
                               indexOf(requestCap(totalRequests)))],
      percentage |-> percentage,
      totalRequests |-> totalRequests,
      totalAccepted |-> totalAccepted]

\* updateUserFeedback: the file after the new counts have been added.
updateUserFeedback(file, newCodingRequests, newCodesAccepted) ==
  LET existingCodingRequests == IF file.exists THEN file.requests ELSE 0
      existingCodesAccepted == IF file.exists THEN file.accepted ELSE 0
  IN FeedbackFile(existingCodingRequests + newCodingRequests,
                  existingCodesAccepted + newCodesAccepted)

\* What the two patterns find in the response of the backend: a number, or
\* -1 for no match.
parsedCount(found) == IF found < 0 THEN 0 ELSE found

\* summarizeUserInstructions from the response on: the feedback file after
\* it.
summarizeUserInstructions(file, response) ==
  LET newCodingRequests == parsedCount(response.requests)
      newCodesAccepted == parsedCount(response.accepted)
  IN IF newCodingRequests > 0 \/ newCodesAccepted > 0
     THEN updateUserFeedback(file, newCodingRequests, newCodesAccepted)
     ELSE file

NoFeedbackOp ==
  [name |-> "none", before |-> NoFeedbackFile, linesBefore |-> 0, summarized |-> FALSE,
   response |-> [requests |-> 0, accepted |-> 0],
   result |-> [level |-> "l0", percentage |-> 0, totalRequests |-> 0, totalAccepted |-> 0]]

\* ---------------------------------------------------------------- feedback artifact

\* A non-negative integer of the size a Number can have: its shortest
\* decimal digits and the number n of digits of its integer part, the
\* value being 0.digits * 10^n.
Digits == <<"0", "1", "2", "3", "4", "5", "6", "7", "8", "9">>

DigitChars == {Digits[i] : i \in 1..Len(Digits)}

Number(digits, n) == [digits |-> digits, n |-> n]

Zero == Number(<<"0">>, 1)

zeros(k) == [i \in 1..k |-> "0"]

\* The decimal digits of a small natural number.
RECURSIVE decimal(_)
decimal(i) == IF i < 10 THEN <<Digits[i + 1]>> ELSE Append(decimal(i \div 10), Digits[(i % 10) + 1])

\* `${x}` for a Number x >= 0 that is an integer: the digits up to 21 of
\* them, the exponent form from 10^21 on (Number::toString).
numberToString(x) ==
  IF x.n <= 21 THEN x.digits \o zeros(x.n - Len(x.digits))
  ELSE <<Head(x.digits)>>
       \o (IF Len(x.digits) > 1 THEN <<".">> \o Tail(x.digits) ELSE <<>>)
       \o <<"e", "+">> \o decimal(x.n - 1)

\* parseInt(digits, 10) of a run of decimal digits with at most 17
\* significant ones.
parseInt(digits) ==
  LET nonZero == {i \in 1..Len(digits) : digits[i] # "0"}
  IN IF nonZero = {} THEN Zero
     ELSE LET first == CHOOSE i \in nonZero : \A j \in nonZero : i <= j
              last_ == CHOOSE i \in nonZero : \A j \in nonZero : i >= j
          IN Number(SubSeq(digits, first, last_), Len(digits) - first + 1)

\* The content both writers give the file.
feedbackContent(mode, codingRequests, codesAccepted, timestamp) ==
  <<"# Code Feedback - ", mode, "\n", "\n", "coding_requests:", " ">>
  \o numberToString(codingRequests)
  \o <<"\n", "codes_accepted:", " ">> \o numberToString(codesAccepted)
  \o <<"\n", "last_updated:", " ">> \o timestamp \o <<"\n">>

\* new Date().toISOString()
Timestamp == <<"2", "0", "2", "6", "-", "1", "1", "-", "0", "4", "T", "0", "9", "Z">>

\* \s
Whitespace == {WS, "\n"}

\* The first index from j on that \s* does not take.
skipSpace(content, j) ==
  CHOOSE k \in j..(Len(content) + 1) :
    /\ \A x \in j..(k - 1) : content[x] \in Whitespace
    /\ k = Len(content) + 1 \/ content[k] \notin Whitespace

\* The first index from j on that \d+ does not take.
digitsEnd(content, j) ==
  CHOOSE k \in j..(Len(content) + 1) :
    /\ \A x \in j..(k - 1) : content[x] \in DigitChars
    /\ k = Len(content) + 1 \/ content[k] \notin DigitChars

\* content.match(/<label>\s*(\d+)/i): the first place where the label,
\* in any case, is followed by white space and digits, and the digits.
match(content, label) ==
  LET at == {i \in 1..Len(content) :
               /\ LowerAtom(content[i]) = label
               /\ digitsEnd(content, skipSpace(content, i + 1)) > skipSpace(content, i + 1)}
  IN IF at = {} THEN [found |-> FALSE, group |-> <<>>]
     ELSE LET i == CHOOSE i \in at : \A j \in at : i <= j
              from == skipSpace(content, i + 1)
          IN [found |-> TRUE,
              group |-> SubSeq(content, from, digitsEnd(content, from) - 1)]

\* The two counters as calculateAutoLevel reads them from the content.
readForLevel(content) ==
  LET codingMatch == match(content, "coding_requests:")
      acceptedMatch == match(content, "codes_accepted:")
  IN [totalRequests |-> IF codingMatch.found THEN parseInt(codingMatch.group)
                        ELSE Number(<<"1">>, 1),
      totalAccepted |-> IF acceptedMatch.found THEN parseInt(acceptedMatch.group) ELSE Zero]

\* The two counters as updateUserFeedback reads them from the content.
readForUpdate(content) ==
  LET codingMatch == match(content, "coding_requests:")
      acceptedMatch == match(content, "codes_accepted:")
  IN [existingCodingRequests |-> IF codingMatch.found THEN parseInt(codingMatch.group)
                                 ELSE Zero,
      existingCodesAccepted |-> IF acceptedMatch.found THEN parseInt(acceptedMatch.group)
                                ELSE Zero]

\* A written feedback file and what the readers made of it.
NoArtifact ==
  [state |-> "none", mode |-> "none", codingRequests |-> Zero, codesAccepted |-> Zero,
   content |-> <<>>,
   forLevel |-> [totalRequests |-> Zero, totalAccepted |-> Zero],
   forUpdate |-> [existingCodingRequests |-> Zero, existingCodesAccepted |-> Zero]]

\* file is the feedback file, lines the number of non-blank lines of the
\* instruction log, initWrite the write of the initial file that
\* calculateAutoLevel starts and does not await, op the last call, written
\* the text of a file that has been written.
NoFeedback ==
  [file |-> NoFeedbackFile, lines |-> 0, initWrite |-> "none", op |-> NoFeedbackOp,
   written |-> NoArtifact]

\* ---------------------------------------------------------------- channel label

\* channelLabel.match(/^#?(opencode|claude|codex)[-:](.+)$/i)
channelNameMatch(label) ==
  LET l == IF startsWith(label, "#") THEN Tail(label) ELSE label
  IN IF Len(l) >= 3 /\ LowerAtom(l[1]) \in Backends /\ l[2] \in {"-", ":"}
     THEN [matched |-> TRUE, mode |-> LowerAtom(l[1]), projectName |-> SubSeq(l, 3, Len(l))]
     ELSE [matched |-> FALSE, mode |-> "none", projectName |-> <<>>]

\* previousMode of the label check: the first flag that is set, in the
\* order codex, claude, opencode.
previousModeOf(e) ==
  IF e.codexMode THEN "codex"
  ELSE IF e.claudeCodeMode THEN "claude"
  ELSE IF e.opencodeMode THEN "opencode"
  ELSE "none"

MigrationPrompt(modeLower) == <<"Provide a detailed prompt for continuing", modeLower>>

HandclawDir == <<".handclaw">>

MigrationFileName(previousMode) == <<"migration_from_", previousMode, ".md">>

\* path.join(dir, ".handclaw", file); path.join drops an empty dir.
MigrationPath(dir, previousMode) ==
  IF dir = <<>> THEN normalize(HandclawDir \o <<"/">> \o MigrationFileName(previousMode))
  ELSE normalize(dir \o <<"/">> \o HandclawDir \o <<"/">> \o MigrationFileName(previousMode))

NoMigration == [ran |-> FALSE]

\* The session fields written by the implicit entry.
ImplicitEnter(e, mode, effectiveProjectDir, projectName) ==
  LET c == [e EXCEPT !.opencodeMode = FALSE, !.opencodeProjectDir = Undefined,
                     !.opencodeAgent = Undefined, !.opencodeResponsePrefix = Undefined,
                     !.claudeCodeMode = FALSE, !.claudeCodeProjectDir = Undefined,
                     !.claudeCodeAgent = Undefined, !.claudeCodeResponsePrefix = Undefined,
                     !.codexMode = FALSE, !.codexProjectDir = Undefined,
                     !.codexAgent = Undefined, !.codexResponsePrefix = Undefined]
      agent == <<"build">>
  IN CASE mode = "opencode" ->
            [c EXCEPT !.opencodeMode = TRUE, !.opencodeProjectDir = effectiveProjectDir,
                      !.opencodeAgent = agent,
                      !.opencodeResponsePrefix = responsePrefixText("opencode", projectName, agent)]
       [] mode = "claude" ->
            [c EXCEPT !.claudeCodeMode = TRUE, !.claudeCodeProjectDir = effectiveProjectDir,
                      !.claudeCodeAgent = agent,
                      !.claudeCodeResponsePrefix = responsePrefixText("claude", projectName, agent)]
       [] mode = "codex" ->
            [c EXCEPT !.codexMode = TRUE, !.codexProjectDir = effectiveProjectDir,
                      !.codexAgent = agent,
                      !.codexResponsePrefix = responsePrefixText("codex", projectName, agent)]

\* entryFires with the test of the project directory left out.
entryFires_anyDir(effectiveProjectDir, needsSwitch, noMode, modeChanged) ==
  needsSwitch \/ noMode \/ modeChanged

\* The condition of the label check for entering the mode of the label:
\* effectiveProjectDir && (needsSwitch || !currentMode || modeChanged).
entryFires(effectiveProjectDir, needsSwitch, noMode, modeChanged) ==
  effectiveProjectDir # <<>> /\ (needsSwitch \/ noMode \/ modeChanged)

\* The project directory of the label check: that of the session for the
\* mode of the label, else the project under the workspace if it exists
\* there (env.wsExists), else what validateProjectDir gives ("" for null).
resolveProjectDir(e, mode, projectName, env) ==
  IF ProjectDirOf(e, mode) # Undefined THEN ProjectDirOf(e, mode)
  ELSE IF env.wsExists THEN pathJoin(WorkspaceDir, projectName)
  ELSE validateProjectDir(projectName)

\* The project directory of the previous mode.
previousProjectDirOf(e) ==
  IF previousModeOf(e) = "none" THEN Undefined ELSE ProjectDirOf(e, previousModeOf(e))

\* summaryText || summaryError || "No summary generated" for the migration
\* process: env.streaming tells whether it ran over the Slack relay,
\* env.outcome and env.stdout how it ended.
migrationContent(env) ==
  LET summaryText == IF env.streaming
                     THEN runCommandStreaming(env.outcome, env.stdout).output
                     ELSE runCommand(env.outcome, env.stdout).text
      summaryError == IF env.streaming THEN <<>>
                      ELSE runCommand(env.outcome, env.stdout).error
  IN orElse(summaryText, orElse(summaryError, <<"No summary generated">>))

\* The process of the migration: the previous backend, on the hand-off
\* prompt, in oldProjectDir, with the plan agent.
migrationCall(mode, previousMode, oldProjectDir, streaming, outcome) ==
  Invocation(previousMode, MigrationPrompt(mode), oldProjectDir, <<"plan">>,
             Undefined, "migrate", streaming, outcome)

\* The migration from previousMode to mode: the process started on the
\* previous backend and the file written.
migrate(mode, projectDir, previousMode, oldProjectDir, env) ==
  [invocations |->
     <<migrationCall(mode, previousMode, oldProjectDir, env.streaming, env.outcome)>>,
   migration |->
     [ran |-> TRUE, from |-> previousMode, to |-> mode,
      dirMade |-> pathJoin(oldProjectDir, HandclawDir),
      file |-> MigrationPath(projectDir, previousMode),
      content |-> migrationContent(env)]]

NotMigrated == [invocations |-> <<>>, migration |-> NoMigration]

\* The end of the label check: the mode of the label is entered if fires,
\* after the migration mig.
labelEntry(e, mode, projectName, projectDir, effectiveProjectDir, fires, mig, now) ==
  [fired |-> fires,
   entry |-> IF fires
             THEN [ImplicitEnter(e, mode, effectiveProjectDir, projectName)
                     EXCEPT !.updatedAt = now]
             ELSE e,
   saves |-> IF fires THEN 1 ELSE 0,
   reply |-> IF fires THEN <<"implicitEntered", mode, projectDir>> ELSE <<"null">>,
   invocations |-> mig.invocations,
   migration |-> mig.migration]

\* modeChanged of the label check:
\* previousMode && previousMode !== modeLower && previousProjectDir.
modeChanged(mode, previousMode, previousProjectDir) ==
  previousMode # "none" /\ previousMode # mode /\ previousProjectDir # Undefined

\* The label check for a label of the convention, with the project
\* directory and the previous mode and its directory.
labelSwitch(e, mode, projectName, projectDir, previousMode, previousProjectDir, env, now) ==
  LET needsSwitch == ~ModeFlag(e, mode)
      changed == modeChanged(mode, previousMode, previousProjectDir)
      oldProjectDir == orElse(previousProjectDir, projectDir)
      effectiveProjectDir == IF changed THEN oldProjectDir ELSE projectDir
  IN labelEntry(e, mode, projectName, projectDir, effectiveProjectDir,
                entryFires(effectiveProjectDir, needsSwitch, currentModeOf(e) = "none",
                           changed),
                IF changed
                THEN migrate(mode, projectDir, previousMode, oldProjectDir, env)
                ELSE NotMigrated,
                now)

\* The label check on the match m of the label.
labelMatched(e, m, env, now) ==
  IF ~m.matched
  THEN [fired |-> FALSE, entry |-> e, saves |-> 0, reply |-> <<"null">>,
        invocations |-> <<>>, migration |-> NoMigration]
  ELSE labelSwitch(e, m.mode, m.projectName,
                   resolveProjectDir(e, m.mode, m.projectName, env),
                   previousModeOf(e), previousProjectDirOf(e), env, now)

\* The label check of getReplyFromConfig.
channelLabelCheck(e, label, env, now) == labelMatched(e, channelNameMatch(label), env, now)

\* ---------------------------------------------------------------- reply entry point

\* /^!code(\s|$)/i, /^!plan\s/i or /^!build\s/i on the trimmed body.
isOpencodeCommand(trimmedBody) ==
  LET l == toLowerCase(trimmedBody)
  IN \/ startsWith(l, "!code") /\ (Len(l) = 1 \/ l[2] = WS)
     \/ startsWith(l, "!plan") /\ Len(l) >= 2 /\ l[2] = WS
     \/ startsWith(l, "!build") /\ Len(l) >= 2 /\ l[2] = WS

\* /^!rate\s/i
isRateCommand(trimmedBody) ==
  LET l == toLowerCase(trimmedBody)
  IN startsWith(l, "!rate") /\ Len(l) >= 2 /\ l[2] = WS

\* The status marker placed by the Slack monitor.
isStatusCommand(trimmedBody) == trimmedBody = <<"[STATUS_COMMAND]">>

ActivitySummaryPrompt == <<"activity summary prompt">>

\* The backend whose forwarding block runs: the blocks are tried in the
\* order opencode, claude, codex, each needing its flag and its directory.
ForwardTarget(e) ==
  IF e.opencodeMode /\ e.opencodeProjectDir # Undefined THEN "opencode"
  ELSE IF e.claudeCodeMode /\ e.claudeCodeProjectDir # Undefined THEN "claude"
  ELSE IF e.codexMode /\ e.codexProjectDir # Undefined THEN "codex"
  ELSE "none"

\* The agent argument of the forwarding call.
ForwardAgent(e, b) ==
  IF b = "opencode"
  THEN (IF e.opencodeAgent # Undefined THEN e.opencodeAgent ELSE <<"plan/build">>)
  ELSE AgentOf(e, b)

\* forwardToBackend that starts the backend a second time when the first
\* process failed.
forwardToBackend_retry(e, b, message, env) ==
  LET projectDir == ProjectDirOf(e, b)
      rec == recordUserInstruction(env.logLines)
      call == Invocation(b, message, projectDir, ForwardAgent(e, b), ModelOf(e, b),
                         "forward", env.streaming, env.outcome)
      sync == runCommand(env.outcome, env.stdout)
  IN [logLines |-> rec.lines,
      invocations |-> IF sync.error # <<>> THEN <<call, call>> ELSE <<call>>,
      reply |-> <<"backend", ResponsePrefixOf(e, b), sync.text>>]

\* The forwarding block of one backend.  env.streaming: the Slack relay is
\* used (a channel id and a message id were found).
forwardToBackend(e, b, message, env) ==
  LET projectDir == ProjectDirOf(e, b)
      rec == recordUserInstruction(env.logLines)
      summarize ==
        IF rec.summarized
        THEN <<Invocation(b, SummarizePrompt(b), projectDir, <<"plan">>, Undefined,
                          "summarize", FALSE, env.summaryOutcome)>>
        ELSE <<>>
      call == Invocation(b, message, projectDir, ForwardAgent(e, b), ModelOf(e, b),
                         "forward", env.streaming, env.outcome)
      sync == runCommand(env.outcome, env.stdout)
      streamed == runCommandStreaming(env.outcome, env.stdout)
      responsePrefix == ResponsePrefixOf(e, b)
  IN [logLines |-> rec.lines,
      invocations |-> Append(summarize, call),
      reply |-> IF env.streaming
                THEN <<"relayed", responsePrefix, streamed.output>>
                ELSE <<"backend", responsePrefix,
                       IF sync.error # <<>> THEN sync.text \o <<"\n">> \o sync.error
                       ELSE sync.text>>]

\* What getReplyFromConfig did: branch names the step that produced the
\* reply.
Result(branch, entry, saves, reply, invocations, migration, pipeline, parsed) ==
  [branch |-> branch, entry |-> entry, saves |-> saves, reply |-> reply,
   invocations |-> invocations, migration |-> migration,
   pipeline |-> pipeline, parsed |-> parsed]

\* forwardOrPipeline that forwards to opencode when no backend is the
\* target.
forwardOrPipeline_defaultBackend(e, body, target, env, now) ==
  LET fwd == forwardToBackend(e, IF target = "none" THEN "opencode" ELSE target, body, env)
  IN Result("forward", e, 0, fwd.reply, fwd.invocations, NoMigration, FALSE, NoCommand)

\* The message goes to the forwarding block of the target backend, or to
\* the normal agent pipeline, which hands it to handleOpencodeCommand.
forwardOrPipeline(e, body, target, env, now) ==
  IF target # "none" /\ body # <<>> /\ ~startsWith(body, "/")
  THEN LET fwd == forwardToBackend(e, target, body, env)
       IN Result("forward", e, 0, fwd.reply, fwd.invocations, NoMigration, FALSE, NoCommand)
  ELSE LET piped == handleOpencodeCommand(e, body, env.allowTextCommands,
                                          env.isAuthorizedSender, now)
       IN IF piped.reply # <<"null">>
          THEN Result("pipelineCommand", piped.entry, piped.saves, piped.reply, <<>>,
                      NoMigration, TRUE, piped.parsed)
          ELSE Result("pipeline", e, 0, <<"pipeline">>, <<>>, NoMigration, TRUE, NoCommand)

\* getReplyFromConfig after the label check did not enter a mode; direct
\* is the result of handleOpencodeCommandDirect for a !code command.
afterLabelCheck(direct, e, triggerBodyNormalized, trimmedBody, env, now) ==
  IF direct.reply # <<"null">>
  THEN Result("command", direct.entry, direct.saves, direct.reply, <<>>, NoMigration,
              FALSE, direct.parsed)
  ELSE IF isRateCommand(trimmedBody)
  THEN Result("rate", e, 0,
              IF ForwardTarget(e) # "none"
              THEN <<"rate", ForwardTarget(e), ProjectDirOf(e, ForwardTarget(e))>>
              ELSE <<"notCodingChannel">>,
              <<>>, NoMigration, FALSE, NoCommand)
  ELSE forwardOrPipeline(e,
                         IF isStatusCommand(trimmedBody) /\ env.slack
                         THEN ActivitySummaryPrompt ELSE triggerBodyNormalized,
                         ForwardTarget(e), env, now)

\* withLabelCheck that forwards the text of the message that fired the
\* entry to the backend entered.
withLabelCheck_alsoForwards(check, e, triggerBodyNormalized, trimmedBody, env, now) ==
  IF check.fired
  THEN Result("implicit", check.entry, check.saves, check.reply,
              check.invocations
              \o forwardToBackend(check.entry, ForwardTarget(check.entry),
                                  triggerBodyNormalized, env).invocations,
              check.migration, FALSE, NoCommand)
  ELSE afterLabelCheck(IF isOpencodeCommand(trimmedBody)
                       THEN handleOpencodeCommandDirect(e, triggerBodyNormalized, now)
                       ELSE Kept(e, <<"null">>, NoCommand),
                       e, triggerBodyNormalized, trimmedBody, env, now)

\* getReplyFromConfig on the result check of the label check.
withLabelCheck(check, e, triggerBodyNormalized, trimmedBody, env, now) ==
  IF check.fired
  THEN Result("implicit", check.entry, check.saves, check.reply, check.invocations,
              check.migration, FALSE, NoCommand)
  ELSE afterLabelCheck(IF isOpencodeCommand(trimmedBody)
                       THEN handleOpencodeCommandDirect(e, triggerBodyNormalized, now)
                       ELSE Kept(e, <<"null">>, NoCommand),
                       e, triggerBodyNormalized, trimmedBody, env, now)

\* getReplyFromConfig from the label check to the hand-over to the normal
\* agent pipeline.
getReplyFromConfig(e, label, triggerBodyNormalized, env, now) ==
  withLabelCheck(channelLabelCheck(e, label, env, now), e, triggerBodyNormalized,
                 trim(triggerBodyNormalized), env, now)

\* ---------------------------------------------------------------- state machine

\* Largest value of the clock (Date.now()); the clock stands still there.
MaxClock == 1

Bodies ==
  { <<"hello">>,
    <<"/", "status">>,
    <<>>,
    <<"[STATUS_COMMAND]">>,
    <<"!code">>,
    <<"!code", WS, "exit">>,
    <<"!code", WS, "switch", WS, "plan">>,
    <<"!code", WS, "switch">>,
    <<"!code", WS, "model", WS, "m1">>,
    <<"!code", WS, "model">>,
    <<"!code", WS, "~", "/", "q", "/">>,
    <<"!code", "/", "p">>,
    <<"!code", "exit">>,
    <<"!rate", WS, "x">> }

Labels ==
  { <<>>,
    <<"#", "claude", "-", "p">>,
    <<"opencode", ":", "p">>,
    <<"#", "CODEX", "-", "p">>,
    <<"#", "claude", "-", WS>> }

\* What a backend process can do: whether its output is streamed, how it
\* ends, and what it wrote to stdout.
ProcessRun(streaming, outcome, stdout) ==
  [streaming |-> streaming, outcome |-> outcome, stdout |-> stdout]

ProcessRuns ==
  { ProcessRun(FALSE, "ok", <<"out">>),
    ProcessRun(TRUE, "ok", <<"out">>),
    ProcessRun(FALSE, "ok", <<>>),
    ProcessRun(FALSE, "spawnError", <<>>),
    ProcessRun(FALSE, "timeout", <<>>),
    ProcessRun(TRUE, "timeout", <<>>),
    ProcessRun(TRUE, "timeout", <<"out">>),
    ProcessRun(TRUE, "spawnError", <<>>),
    ProcessRun(TRUE, "exitStderr", <<"out">>),
    ProcessRun(FALSE, "exitStderr", <<"out">>),
    ProcessRun(FALSE, "exitNoStderr", <<"out">>) }

QuietRun == ProcessRun(FALSE, "ok", <<"out">>)

\* Non-blank lines the instruction log of a project can hold when a
\* message is forwarded, and how a summarization of the log can end.
LogLineChoices == {0, 498}

SummaryOutcomes == {"ok", "timeout"}

VARIABLES
  store,           \* the persisted session record
  sessionEntry,    \* the in-memory session record of the task
  clock,           \* Date.now()
  pc,              \* position of the task of the session: idle, handling, replied
  msg,             \* the inbound message being handled
  last,            \* what the handling of that message did
  proc,            \* subprocess, timer and promise of one streaming adapter call
  relay,           \* the relay of that call: buffer, gate, edits, position of the caller
  time,            \* Date.now() in milliseconds during the adapter call
  syncRun,         \* one synchronous adapter call
  other,           \* a second task of the session, handled during a migration
  event,           \* the channel_rename event of the channel of the session
  feedback         \* feedback file and instruction log of one project and backend

vars ==
  <<store, sessionEntry, clock, pc, msg, last, proc, relay, time, syncRun, other, event,
    feedback>>

routerVars == <<store, sessionEntry, clock, pc, msg, last>>

adapterVars == <<proc, relay, time, syncRun>>

\* What the tasks beside the call for the message hold.
raceVars == <<other, event>>

feedbackVars == <<feedback>>

NoMessage == [label |-> <<>>, body |-> <<>>]

NoResult ==
  [pre |-> EmptyEntry, branch |-> "none", parsed |-> NoCommand, reply |-> <<"null">>,
   invocations |-> <<>>, migration |-> NoMigration, saves |-> 0, pipeline |-> FALSE]

\* A second call of getReplyFromConfig for the same session key: the
\* message, the record it loaded and what its handling did.
NoOther ==
  [done |-> FALSE, label |-> <<>>, body |-> <<>>, pre |-> EmptyEntry,
   entry |-> EmptyEntry, branch |-> "none", reply |-> <<"null">>, saves |-> 0,
   races |-> 0]

\* A channel_rename event: the new name, the stored record before the
\* handler ran, whether the handler wrote the store, and where the next
\* inbound message of the session is.
NoEvent ==
  [kind |-> "none", channelName |-> <<>>, pre |-> EmptyEntry, written |-> FALSE,
   next |-> "none"]

InitCalls ==
  /\ event = NoEvent
  /\ store = EmptyEntry
  /\ sessionEntry = EmptyEntry
  /\ clock = 0
  /\ pc = "idle"
  /\ msg = NoMessage
  /\ last = NoResult
  /\ proc = NoProcess
  /\ relay = NoRelay
  /\ time = 0
  /\ syncRun = NoSync
  /\ other = NoOther

Init == InitCalls /\ feedback = NoFeedback

\* An inbound message arrives for the session; initSessionState loads the
\* session record from the store.
ReceiveMessage ==
  /\ pc = "idle"
  /\ \E label \in Labels, body \in Bodies : msg' = [label |-> label, body |-> body]
  /\ sessionEntry' = store
  /\ pc' = "handling"
  /\ UNCHANGED <<store, clock, last>>
  /\ UNCHANGED adapterVars
  /\ UNCHANGED feedbackVars
  /\ UNCHANGED raceVars

Env(wsExists, slack, run, logLines, summaryOutcome, allow, auth) ==
  [wsExists |-> wsExists, slack |-> slack, streaming |-> run.streaming,
   outcome |-> run.outcome, stdout |-> run.stdout, logLines |-> logLines,
   summaryOutcome |-> summaryOutcome, allowTextCommands |-> allow,
   isAuthorizedSender |-> auth]

\* getReplyFromConfig runs on the message under the choices env of the
\* environment.
Handle(env) ==
  LET e == sessionEntry
      now == IF clock < MaxClock THEN clock + 1 ELSE clock
  IN \E r \in {getReplyFromConfig(e, msg.label, msg.body, env, now)} :
       /\ sessionEntry' = r.entry
       /\ store' = IF r.saves > 0 THEN r.entry ELSE store
       /\ clock' = now
       /\ last' = [pre |-> e, branch |-> r.branch, parsed |-> r.parsed, reply |-> r.reply,
                   invocations |-> r.invocations, migration |-> r.migration,
                   saves |-> r.saves, pipeline |-> r.pipeline]
       /\ pc' = "replied"
       /\ UNCHANGED msg
       /\ UNCHANGED adapterVars
       /\ UNCHANGED feedbackVars
       /\ UNCHANGED raceVars

\* The label check of the message being handled finds the mode changed
\* and runs the migration.
MigrationNeeded ==
  LET m == channelNameMatch(msg.label)
  IN m.matched /\ modeChanged(m.mode, previousModeOf(sessionEntry),
                              previousProjectDirOf(sessionEntry))

\* The outcome of a process that has not ended.
Running == "running"

\* getReplyFromConfig up to the await of the migration process: projectDir
\* is resolved and the process is started on the previous backend; nothing
\* is written before the process has ended.
StartMigration ==
  /\ pc = "handling"
  /\ MigrationNeeded
  /\ LET e == sessionEntry
         m == channelNameMatch(msg.label)
     IN \E wsExists \in (IF ProjectDirOf(e, m.mode) = Undefined THEN BOOLEAN ELSE {FALSE}),
           streaming \in BOOLEAN :
          \E projectDir \in {resolveProjectDir(e, m.mode, m.projectName,
                                                [wsExists |-> wsExists])} :
            last' = [NoResult EXCEPT
                       !.pre = e,
                       !.branch = "migrating",
                       !.reply = <<"awaiting", m.mode, projectDir>>,
                       !.invocations =
                         <<migrationCall(m.mode, previousModeOf(e),
                                         orElse(previousProjectDirOf(e), projectDir),
                                         streaming, Running)>>]
  /\ pc' = "migrating"
  /\ UNCHANGED <<store, sessionEntry, clock, msg>>
  /\ UNCHANGED adapterVars
  /\ UNCHANGED feedbackVars
  /\ UNCHANGED raceVars

\* getReplyFromConfig from the end of the migration process: the migration
\* file is written, then the mode of the label is entered and saved.
FinishMigration ==
  /\ pc = "migrating"
  /\ LET e == sessionEntry
         m == channelNameMatch(msg.label)
         now == IF clock < MaxClock THEN clock + 1 ELSE clock
     IN \E run \in ProcessRuns :
          /\ run.streaming = last.invocations[1].streaming
          /\ \E r \in {withLabelCheck(
                          labelSwitch(e, m.mode, m.projectName, last.reply[3],
                                      previousModeOf(e), previousProjectDirOf(e),
                                      Env(FALSE, run.streaming, run, 0, "ok", TRUE, TRUE),
                                      now),
                          e, msg.body, trim(msg.body),
                          Env(FALSE, run.streaming, run, 0, "ok", TRUE, TRUE), now)} :
               /\ sessionEntry' = r.entry
               /\ store' = IF r.saves > 0 THEN r.entry ELSE store
               /\ clock' = now
               /\ last' = [pre |-> e, branch |-> r.branch, parsed |-> r.parsed,
                           reply |-> r.reply, invocations |-> r.invocations,
                           migration |-> r.migration, saves |-> r.saves,
                           pipeline |-> r.pipeline]
               /\ pc' = "replied"
               /\ UNCHANGED msg
               /\ UNCHANGED adapterVars
               /\ UNCHANGED feedbackVars
               /\ UNCHANGED raceVars

\* The choices of the environment are drawn only where the handling of the
\* message looks at them.
HandleMessage ==
  /\ pc = "handling"
  /\ ~MigrationNeeded
  /\ LET m == channelNameMatch(msg.label)
         probes == m.matched /\ ProjectDirOf(sessionEntry, m.mode) = Undefined
     IN \E wsExists \in (IF probes THEN BOOLEAN ELSE {FALSE}) :
        \E r0 \in {getReplyFromConfig(sessionEntry, msg.label, msg.body,
                                      Env(wsExists, FALSE, QuietRun, 0, "ok", TRUE, TRUE),
                                      clock)} :
          LET runs == r0.invocations # <<>>
              forwards == r0.branch = "forward"
              status == forwards /\ isStatusCommand(trim(msg.body))
              piped == r0.branch \in {"pipeline", "pipelineCommand"}
                       /\ startsWith(toLowerCase(trim(msg.body)), commandPrefix)
          IN \E run \in (IF runs THEN ProcessRuns ELSE {QuietRun}),
                logLines \in (IF forwards THEN LogLineChoices ELSE {0}),
                allow \in (IF piped THEN BOOLEAN ELSE {TRUE}),
                auth \in (IF piped THEN BOOLEAN ELSE {TRUE}) :
               /\ logLines > 0 => run = QuietRun
               /\ \E slack \in (IF run.streaming THEN {TRUE}
                                ELSE IF status /\ logLines = 0 THEN BOOLEAN ELSE {FALSE}),
                     summaryOutcome \in
                       (IF forwards /\ recordUserInstruction(logLines).summarized
                        THEN SummaryOutcomes ELSE {"ok"}) :
                    Handle(Env(wsExists, slack, run, logLines, summaryOutcome, allow, auth))

\* The reply goes back to the caller and the task of the message ends.
ReturnReply ==
  /\ pc = "replied"
  /\ last' = NoResult
  /\ msg' = NoMessage
  /\ pc' = "idle"
  /\ UNCHANGED <<store, sessionEntry, clock>>
  /\ UNCHANGED adapterVars
  /\ UNCHANGED feedbackVars
  /\ UNCHANGED raceVars

Next == ReceiveMessage \/ HandleMessage \/ StartMigration \/ FinishMigration \/ ReturnReply

Spec == Init /\ [][Next]_vars

TypeOK ==
  /\ clock \in 0..MaxClock
  /\ store.updatedAt <= clock
  /\ last.saves \in {0, 1}
  /\ pc \in {"idle", "handling", "migrating", "replied"}

\* ---------------------------------------------------------------- a store whose write fails

\* The reply of a call of getReplyFromConfig that ended with an exception.
Raised == <<"raised">>

\* updateSessionStore(storePath, mutator) rejects: the file keeps what it
\* held.
updateSessionStoreFails(stored) == stored

\* getReplyFromConfig runs on a message whose handling saves the session
\* record, and the write fails: updatedAt and sessionStore[sessionKey] are
\* set before the awaited write, the rejection of the write leaves the
\* handler through the awaits.
StoreWriteFails ==
  /\ pc = "handling"
  /\ ~MigrationNeeded
  /\ LET e == sessionEntry
         now == IF clock < MaxClock THEN clock + 1 ELSE clock
         m == channelNameMatch(msg.label)
         probes == m.matched /\ ProjectDirOf(sessionEntry, m.mode) = Undefined
     IN \E wsExists \in (IF probes THEN BOOLEAN ELSE {FALSE}) :
        \E r \in {getReplyFromConfig(e, msg.label, msg.body,
                                     Env(wsExists, FALSE, QuietRun, 0, "ok", TRUE, TRUE),
                                     now)} :
          /\ r.saves > 0
          /\ sessionEntry' = r.entry
          /\ store' = updateSessionStoreFails(store)
          /\ clock' = now
          /\ last' = [pre |-> e, branch |-> r.branch, parsed |-> r.parsed,
                      reply |-> Raised, invocations |-> r.invocations,
                      migration |-> r.migration, saves |-> r.saves,
                      pipeline |-> r.pipeline]
          /\ pc' = "replied"
          /\ UNCHANGED msg
          /\ UNCHANGED adapterVars
          /\ UNCHANGED feedbackVars
          /\ UNCHANGED raceVars

FaultNext ==
  \/ ReceiveMessage
  \/ HandleMessage
  \/ StoreWriteFails
  \/ StartMigration
  \/ FinishMigration
  \/ ReturnReply

FaultSpec == Init /\ [][FaultNext]_vars

\* ---------------------------------------------------------------- two messages of one session

\* The calls of a session overlap at most this many times.
MaxRaces == 1

\* The bodies that are mode commands.
ExplicitBodies == {b \in Bodies : startsWith(toLowerCase(trim(b)), commandPrefix)}

\* While the call for the first message awaits its migration process, a
\* second message of the session arrives and is handled to the end: its
\* call loads the stored record, which the first call has not yet written,
\* and saves what it makes of it.  The second message is a mode command
\* without a label; the first one, whose body the implicit entry does not
\* look at, has an empty body.
OtherMessage ==
  /\ pc = "migrating"
  /\ msg.body = <<>>
  /\ ~other.done
  /\ other.races < MaxRaces
  /\ \E label \in {<<>>}, body \in ExplicitBodies :
       LET m == channelNameMatch(label)
           now == IF clock < MaxClock THEN clock + 1 ELSE clock
           probes == m.matched /\ ProjectDirOf(store, m.mode) = Undefined
       IN /\ ~(m.matched /\ modeChanged(m.mode, previousModeOf(store),
                                         previousProjectDirOf(store)))
          /\ \E wsExists \in (IF probes THEN BOOLEAN ELSE {FALSE}) :
             \E r \in {getReplyFromConfig(store, label, body,
                                          Env(wsExists, FALSE, QuietRun, 0, "ok", TRUE, TRUE),
                                          now)} :
               /\ other' = [done |-> TRUE, label |-> label, body |-> body, pre |-> store,
                            entry |-> r.entry, branch |-> r.branch, reply |-> r.reply,
                            saves |-> r.saves, races |-> other.races + 1]
               /\ store' = IF r.saves > 0 THEN r.entry ELSE store
               /\ clock' = now
  /\ UNCHANGED <<sessionEntry, pc, msg, last, event>>
  /\ UNCHANGED adapterVars
  /\ UNCHANGED feedbackVars

\* The replies go back to the callers and both tasks end.
ReturnReplies ==
  /\ pc = "replied"
  /\ last' = NoResult
  /\ msg' = NoMessage
  /\ pc' = "idle"
  /\ other' = [NoOther EXCEPT !.races = other.races]
  /\ UNCHANGED <<store, sessionEntry, clock, event>>
  /\ UNCHANGED adapterVars
  /\ UNCHANGED feedbackVars

\* The session is followed until its calls have overlapped MaxRaces times.
ReceiveBeforeRace == other.races < MaxRaces /\ ReceiveMessage

RaceNext ==
  \/ ReceiveBeforeRace
  \/ HandleMessage
  \/ StartMigration
  \/ OtherMessage
  \/ FinishMigration
  \/ ReturnReplies

RaceSpec == Init /\ [][RaceNext]_vars

\* ---------------------------------------------------------------- messages for one agent

\* Messages that name the agent of one run, and the messages that bring
\* the session into a mode and set its agent.
OneShotBodies ==
  { <<"!plan", WS, "hello">>,
    <<"!build", WS, "hello">>,
    <<"!Plan", WS, "hello">>,
    <<"!BUILD", WS, WS, "hello">> }

AgentBodies ==
  OneShotBodies
  \cup { <<"!code", WS, "~", "/", "q", "/">>,
         <<"!code", WS, "switch", WS, "plan">>,
         <<"!code", WS, "switch">>,
         <<"!code", WS, "exit">>,
         <<"hello">> }

AgentLabels == { <<>>, <<"#", "claude", "-", "p">>, <<"#", "CODEX", "-", "p">> }

\* An inbound message of these arrives for the session.
ReceiveAgentMessage ==
  /\ pc = "idle"
  /\ \E label \in AgentLabels, body \in AgentBodies : msg' = [label |-> label, body |-> body]
  /\ sessionEntry' = store
  /\ pc' = "handling"
  /\ UNCHANGED <<store, clock, last>>
  /\ UNCHANGED adapterVars
  /\ UNCHANGED feedbackVars
  /\ UNCHANGED raceVars

AgentNext ==
  ReceiveAgentMessage \/ HandleMessage \/ StartMigration \/ FinishMigration \/ ReturnReply

AgentSpec == Init /\ [][AgentNext]_vars

\* ---------------------------------------------------------------- the entry point of get-reply.ts

\* /^!oc(\s|$)/i on the trimmed body.
isOcCommand(trimmedBody) ==
  LET l == toLowerCase(trimmedBody)
  IN startsWith(l, "!oc") /\ (Len(l) = 1 \/ l[2] = WS)

\* The forwarding block of get-reply.ts: the message goes to opencode with
\* the agent and the model of the session.
forwardToOpencode(e, message, env) ==
  LET call == Invocation("opencode", message, e.opencodeProjectDir,
                         orElse(e.opencodeAgent, DEFAULT_OPENCODE_AGENT),
                         e.opencodeModel, "forward", env.streaming, env.outcome)
      sync == runCommand(env.outcome, env.stdout)
      streamed == runCommandStreaming(env.outcome, env.stdout)
  IN Result("forward", e, 0,
            IF env.streaming
            THEN <<"relayed", e.opencodeResponsePrefix, streamed.output>>
            ELSE <<"backend", e.opencodeResponsePrefix,
                   IF sync.error # <<>> THEN sync.text \o <<"\n">> \o sync.error
                   ELSE sync.text>>,
            <<call>>, NoMigration, FALSE, NoCommand)

\* getReplyFromConfig of get-reply.ts from the trigger to the hand-over to
\* the normal agent pipeline: a message the trigger takes goes to
\* handleOpencodeCommandDirect, the others to opencode when the session is
\* in opencode mode, and to the pipeline otherwise.
getReply(e, triggerBodyNormalized, env, now) ==
  LET direct == IF isOcCommand(trim(triggerBodyNormalized))
                THEN handleOpencodeCommandDirect(e, triggerBodyNormalized, now)
                ELSE Kept(e, <<"null">>, NoCommand)
  IN IF direct.reply # <<"null">>
     THEN Result("command", direct.entry, direct.saves, direct.reply, <<>>, NoMigration,
                 FALSE, direct.parsed)
     ELSE IF e.opencodeMode /\ e.opencodeProjectDir # Undefined
             /\ triggerBodyNormalized # <<>> /\ ~startsWith(triggerBodyNormalized, "/")
     THEN forwardToOpencode(e, triggerBodyNormalized, env)
     ELSE forwardOrPipeline(e, triggerBodyNormalized, "none", env, now)

\* The messages of a session served by get-reply.ts: mode commands under
\* the two prefixes, and text.
EntryBodies ==
  { <<"!oc">>,
    <<"!oc", WS, "~", "/", "q", "/">>,
    <<"!oc", WS, "exit">>,
    <<"!OC", WS, "exit">>,
    <<"!oc", WS, "switch", WS, "plan">>,
    <<"!oc", WS, "model", WS, "m1">>,
    <<"!oc", "exit">>,
    <<"!code", WS, "~", "/", "q", "/">>,
    <<"!code", WS, "exit">>,
    <<"!code", WS, "switch", WS, "plan">>,
    <<"!code", WS, "model", WS, "m1">>,
    <<"hello">> }

\* An inbound message arrives at get-reply.ts.
ReceiveEntryMessage ==
  /\ pc = "idle"
  /\ \E body \in EntryBodies : msg' = [label |-> <<>>, body |-> body]
  /\ sessionEntry' = store
  /\ pc' = "handling"
  /\ UNCHANGED <<store, clock, last>>
  /\ UNCHANGED adapterVars
  /\ UNCHANGED feedbackVars
  /\ UNCHANGED raceVars

\* getReplyFromConfig of get-reply.ts runs on the message.
GetReply ==
  /\ pc = "handling"
  /\ LET e == sessionEntry
         now == IF clock < MaxClock THEN clock + 1 ELSE clock
         quiet == Env(FALSE, FALSE, QuietRun, 0, "ok", TRUE, TRUE)
     IN \E r0 \in {getReply(e, msg.body, quiet, now)} :
        \E run \in (IF r0.invocations # <<>> THEN ProcessRuns ELSE {QuietRun}),
           allow \in (IF r0.pipeline THEN BOOLEAN ELSE {TRUE}),
           auth \in (IF r0.pipeline THEN BOOLEAN ELSE {TRUE}) :
          \E r \in {getReply(e, msg.body, Env(FALSE, FALSE, run, 0, "ok", allow, auth), now)} :
            /\ sessionEntry' = r.entry
            /\ store' = IF r.saves > 0 THEN r.entry ELSE store
            /\ clock' = now
            /\ last' = [pre |-> e, branch |-> r.branch, parsed |-> r.parsed,
                        reply |-> r.reply, invocations |-> r.invocations,
                        migration |-> r.migration, saves |-> r.saves,
                        pipeline |-> r.pipeline]
            /\ pc' = "replied"
            /\ UNCHANGED msg
            /\ UNCHANGED adapterVars
            /\ UNCHANGED feedbackVars
            /\ UNCHANGED raceVars

EntryNext == ReceiveEntryMessage \/ GetReply \/ ReturnReply

EntrySpec == Init /\ [][EntryNext]_vars

\* ---------------------------------------------------------------- a sender who is not authorized

\* getReplyFromConfig runs on a message whose sender is not authorized
\* (command.isAuthorizedSender is false); the other choices of the
\* environment are those of HandleMessage.
HandleUnauthorized ==
  /\ pc = "handling"
  /\ ~MigrationNeeded
  /\ LET m == channelNameMatch(msg.label)
         probes == m.matched /\ ProjectDirOf(sessionEntry, m.mode) = Undefined
     IN \E wsExists \in (IF probes THEN BOOLEAN ELSE {FALSE}) :
        \E r0 \in {getReplyFromConfig(sessionEntry, msg.label, msg.body,
                                      Env(wsExists, FALSE, QuietRun, 0, "ok", TRUE, FALSE),
                                      clock)} :
          LET runs == r0.invocations # <<>>
              piped == r0.branch \in {"pipeline", "pipelineCommand"}
                       /\ startsWith(toLowerCase(trim(msg.body)), commandPrefix)
          IN \E run \in (IF runs THEN {QuietRun, ProcessRun(TRUE, "ok", <<"out">>)}
                         ELSE {QuietRun}),
                allow \in (IF piped THEN BOOLEAN ELSE {TRUE}) :
               Handle(Env(wsExists, run.streaming, run, 0, "ok", allow, FALSE))

UnauthorizedNext ==
  ReceiveMessage \/ HandleUnauthorized \/ StartMigration \/ FinishMigration \/ ReturnReply

UnauthorizedSpec == Init /\ [][UnauthorizedNext]_vars

\* ---------------------------------------------------------------- a renamed channel

\* payload.channel.name_normalized of the event.
ChannelNames ==
  { <<"codex", "-", "p">>,
    <<"claude", "-", "p">>,
    <<"opencode", ":", "r">>,
    <<"general">> }

\* Texts of the next inbound message.
RenamedBodies == { <<"hello">>, <<"!code", WS, "exit">>, <<>> }

\* The entry with the label of the channel and updatedAt set.
relabel(entry, channelName, now) ==
  [entry EXCEPT !.origin = IF @ # Undefined
                           THEN [@ EXCEPT !.label = <<"#">> \o channelName]
                           ELSE @,
                !.updatedAt = now]

\* renameChannel that writes the session whatever its mode.
renameChannel_anySession(entry, channelName, now) ==
  [entry |-> relabel(entry, channelName, now), written |-> TRUE]

\* The handler of channel_rename on the stored entry: where the session
\* has one of the mode flags set, the label of the origin becomes
\* "#" + channelName, updatedAt is set and the store is written.
renameChannel(entry, channelName, now) ==
  LET hadMode == entry.opencodeMode \/ entry.claudeCodeMode \/ entry.codexMode
  IN IF hadMode
     THEN [entry |-> relabel(entry, channelName, now), written |-> TRUE]
     ELSE [entry |-> entry, written |-> FALSE]

\* A channel_rename event arrives while no message of the session is
\* being handled.
ChannelRename ==
  /\ pc = "idle"
  /\ event.kind = "none"
  /\ \E channelName \in ChannelNames :
       \E r \in {renameChannel(store, channelName,
                               IF clock < MaxClock THEN clock + 1 ELSE clock)} :
          /\ store' = r.entry
          /\ clock' = IF r.written THEN r.entry.updatedAt ELSE clock
          /\ event' = [kind |-> "renamed", channelName |-> channelName, pre |-> store,
                       written |-> r.written, next |-> "awaited"]
  /\ UNCHANGED <<sessionEntry, pc, msg, last, other>>
  /\ UNCHANGED adapterVars
  /\ UNCHANGED feedbackVars

\* The next inbound message of the session: its label is GroupSubject,
\* the name of the channel fetched anew, or the label of the origin of the
\* stored record.
ReceiveAfterRename ==
  /\ pc = "idle"
  /\ event.next = "awaited"
  /\ \E label \in {<<"#">> \o event.channelName, event.channelName, store.origin.label},
        body \in RenamedBodies :
       /\ label = <<>> => ~event.written
       /\ msg' = [label |-> label, body |-> body]
  /\ sessionEntry' = store
  /\ pc' = "handling"
  /\ event' = [event EXCEPT !.next = "handling"]
  /\ UNCHANGED <<store, clock, last, other>>
  /\ UNCHANGED adapterVars
  /\ UNCHANGED feedbackVars

\* The reply to that message goes back to the caller.
ReturnAfterRename ==
  /\ pc = "replied"
  /\ event.next = "handling"
  /\ last' = NoResult
  /\ msg' = NoMessage
  /\ pc' = "idle"
  /\ event' = NoEvent
  /\ UNCHANGED <<store, sessionEntry, clock, other>>
  /\ UNCHANGED adapterVars
  /\ UNCHANGED feedbackVars

\* The messages that bring the session into a mode before the event.
ReceiveBeforeRename ==
  /\ event.kind = "none"
  /\ pc = "idle"
  /\ \E label \in {<<>>, <<"#", "claude", "-", "p">>, <<"#", "CODEX", "-", "p">>},
        body \in {<<"!code", WS, "~", "/", "q", "/">>, <<"!code", WS, "exit">>, <<"hello">>} :
       msg' = [label |-> label, body |-> body]
  /\ sessionEntry' = store
  /\ pc' = "handling"
  /\ UNCHANGED <<store, clock, last>>
  /\ UNCHANGED adapterVars
  /\ UNCHANGED feedbackVars
  /\ UNCHANGED raceVars

ReturnBeforeRename == event.kind = "none" /\ ReturnReply

RenameNext ==
  \/ ReceiveBeforeRename
  \/ ChannelRename
  \/ ReceiveAfterRename
  \/ HandleMessage
  \/ StartMigration
  \/ FinishMigration
  \/ ReturnBeforeRename
  \/ ReturnAfterRename

RenameSpec == Init /\ [][RenameNext]_vars

\* ---------------------------------------------------------------- command router alone

\* Path arguments of an enter command, the blank ones among them.  The
\* parser never hands a blank path to the enter branch, so the branch is
\* also run on parsed commands directly.
PathInputs ==
  { <<>>,
    <<WS>>,
    <<WS, WS>>,
    <<"~">>,
    <<"~", "/", "q", "/">>,
    <<"p">>,
    <<WS, "p", "/", ".", ".", "/", "q", "/">>,
    <<"/", "p", "/", "/", "q">> }

ParsedCommands ==
  { [action |-> "exit", value |-> <<>>],
    [action |-> "switch", value |-> <<"plan">>],
    [action |-> "model", value |-> <<"m1">>] }
  \cup { [action |-> "enter", value |-> v] : v \in PathInputs }

\* The branch of a parsed command runs on the stored session record.
RouteParsed ==
  /\ pc = "idle"
  /\ LET now == IF clock < MaxClock THEN clock + 1 ELSE clock
     IN \E parsed \in ParsedCommands :
          \E r \in {routeCommandDirect(store, parsed, now)} :
            /\ sessionEntry' = r.entry
            /\ store' = IF r.saves > 0 THEN r.entry ELSE store
            /\ clock' = now
            /\ last' = [pre |-> store, branch |-> "command", parsed |-> r.parsed,
                        reply |-> r.reply, invocations |-> <<>>, migration |-> NoMigration,
                        saves |-> r.saves, pipeline |-> FALSE]
            /\ pc' = "replied"
            /\ UNCHANGED msg
            /\ UNCHANGED adapterVars
            /\ UNCHANGED feedbackVars
            /\ UNCHANGED raceVars

RouterNext == RouteParsed \/ ReturnReply

RouterSpec == Init /\ [][RouterNext]_vars

\* ---------------------------------------------------------------- the parser alone

\* The longest body handed to the parser.
MaxBodyLen == 5

\* What a body is made of: the prefix and the verbs in two casings, an
\* argument with capitals, whitespace and the two other triggers.
BodyAtoms == {"!code", "!CODE", WS, "EXIT", "Switch", "model", "Arg", "!Plan", "!BUILD"}

ParserBodies == UNION {[1..n -> BodyAtoms] : n \in 0..MaxBodyLen}

\* parseOpencodeCommand(body) is called and returns.
ParseBody ==
  /\ pc = "idle"
  /\ \E body \in ParserBodies :
       /\ msg' = [label |-> <<>>, body |-> body]
       /\ last' = [NoResult EXCEPT !.branch = "parsed",
                                   !.parsed = parseOpencodeCommand(body)]
  /\ pc' = "replied"
  /\ UNCHANGED <<store, sessionEntry, clock>>
  /\ UNCHANGED adapterVars
  /\ UNCHANGED feedbackVars
  /\ UNCHANGED raceVars

ParserNext == ParseBody \/ ReturnReply

ParserSpec == Init /\ [][ParserNext]_vars

\* ---------------------------------------------------------------- feedback of one project

\* The largest counter of a feedback file.
MaxCount == 125

\* The feedback files a project can have got from earlier summaries, and
\* the line counts at which an instruction is recorded.
SummarizedFiles == {NoFeedbackFile, InitialFeedbackFile, FeedbackFile(7, 5)}

RecordFrom == {0, 497, 498}

\* What the patterns find in the response to the summarization prompt.
Responses == [requests : {-1, 0, 2}, accepted : {-1, 0, 1}]

FeedbackInit ==
  /\ InitCalls
  /\ \E file \in {NoFeedbackFile}
                 \cup {FeedbackFile(r, a) : r \in 0..MaxCount, a \in 0..MaxCount},
        lines \in RecordFrom :
       /\ file.exists => file.requests + file.accepted > 0
       /\ lines # 0 => file \in SummarizedFiles
       /\ feedback = [NoFeedback EXCEPT !.file = file, !.lines = lines]

\* The !rate command calls calculateAutoLevel; where there is no feedback
\* file the write of the initial one is started and not awaited.
Rate ==
  /\ \E percentage \in
         percentages(IF feedback.file.exists THEN feedback.file.accepted ELSE 0,
                     IF feedback.file.exists THEN feedback.file.requests ELSE 1) :
       feedback' = [feedback EXCEPT
                      !.initWrite = IF feedback.file.exists THEN @ ELSE "pending",
                      !.op = [NoFeedbackOp EXCEPT
                                !.name = "rate",
                                !.before = feedback.file,
                                !.linesBefore = feedback.lines,
                                !.result = calculateAutoLevel(feedback.file, percentage)]]
  /\ UNCHANGED routerVars
  /\ UNCHANGED adapterVars
  /\ UNCHANGED raceVars

\* The write started by calculateAutoLevel takes place.
InitWriteLands ==
  /\ feedback.initWrite = "pending"
  /\ feedback' = [feedback EXCEPT
                    !.initWrite = "none",
                    !.file = InitialFeedbackFile,
                    !.op = [NoFeedbackOp EXCEPT !.name = "initWrite",
                                                !.before = feedback.file,
                                                !.linesBefore = feedback.lines]]
  /\ UNCHANGED routerVars
  /\ UNCHANGED adapterVars
  /\ UNCHANGED raceVars

\* The write started by calculateAutoLevel fails: the directory, whose
\* creation was started with it, is not there yet.
InitWriteFails ==
  /\ feedback.initWrite = "pending"
  /\ ~feedback.file.exists
  /\ feedback' = [feedback EXCEPT
                    !.initWrite = "none",
                    !.op = [NoFeedbackOp EXCEPT !.name = "initWriteFailed",
                                                !.before = feedback.file,
                                                !.linesBefore = feedback.lines]]
  /\ UNCHANGED routerVars
  /\ UNCHANGED adapterVars
  /\ UNCHANGED raceVars

\* A forwarded message is recorded: recordUserInstruction appends the
\* entry and, over the threshold, summarizes: the backend answers, the
\* counts are added to the feedback file and the log is cleared.
RecordInstruction ==
  /\ feedback.lines \in RecordFrom
  /\ \E response \in Responses :
       \E rec \in {recordUserInstruction(feedback.lines)} :
         /\ ~rec.summarized => response = [requests |-> -1, accepted |-> -1]
         /\ feedback' = [feedback EXCEPT
                           !.lines = rec.lines,
                           !.file = IF rec.summarized
                                    THEN summarizeUserInstructions(@, response)
                                    ELSE @,
                           !.op = [NoFeedbackOp EXCEPT
                                     !.name = "record",
                                     !.before = feedback.file,
                                     !.linesBefore = feedback.lines,
                                     !.summarized = rec.summarized,
                                     !.response = response]]
  /\ UNCHANGED routerVars
  /\ UNCHANGED adapterVars
  /\ UNCHANGED raceVars

FeedbackNext == Rate \/ InitWriteLands \/ InitWriteFails \/ RecordInstruction

FeedbackSpec == FeedbackInit /\ [][FeedbackNext]_vars

\* ---------------------------------------------------------------- the feedback file as text

\* Counters a feedback file is written with: small ones, 2^53, 10^20,
\* 10^21, 12 * 10^20 and 10^22.
Counts ==
  {Zero, Number(<<"1">>, 1), Number(<<"7">>, 1), Number(<<"1">>, 2),
   Number(<<"1", "2">>, 2), Number(<<"1", "2", "5">>, 3), Number(<<"5">>, 3),
   Number(<<"9", "0", "0", "7", "1", "9", "9", "2", "5", "4", "7", "4", "0", "9", "9", "2">>, 16),
   Number(<<"1">>, 21), Number(<<"1">>, 22), Number(<<"1", "2">>, 22),
   Number(<<"1">>, 23)}

\* mode of the writers.
Modes == {"opencode", "claude", "codex"}

\* A writer writes the file with the two counters.
WriteFeedbackFile ==
  /\ feedback.written.state = "none"
  /\ \E mode \in Modes, codingRequests \in Counts, codesAccepted \in Counts :
       feedback' = [feedback EXCEPT
                      !.written = [NoArtifact EXCEPT
                                     !.state = "written",
                                     !.mode = mode,
                                     !.codingRequests = codingRequests,
                                     !.codesAccepted = codesAccepted,
                                     !.content = feedbackContent(mode, codingRequests,
                                                                 codesAccepted, Timestamp)]]
  /\ UNCHANGED routerVars
  /\ UNCHANGED adapterVars
  /\ UNCHANGED raceVars

\* The two readers read the file.
ReadFeedbackFile ==
  /\ feedback.written.state = "written"
  /\ feedback' = [feedback EXCEPT
                    !.written.state = "read",
                    !.written.forLevel = readForLevel(feedback.written.content),
                    !.written.forUpdate = readForUpdate(feedback.written.content)]
  /\ UNCHANGED routerVars
  /\ UNCHANGED adapterVars
  /\ UNCHANGED raceVars

ArtifactNext == WriteFeedbackFile \/ ReadFeedbackFile

ArtifactSpec == Init /\ [][ArtifactNext]_vars

\* ---------------------------------------------------------------- one adapter call

\* Most stdout chunks of one subprocess, and the time up to which the
\* clock of the adapter call moves in small steps.
MaxChunks == 3
MaxTime == 2000

\* Milliseconds between two events.
TickSteps == {999, 1000}

\* What a subprocess can write to stdout in one data event.
StdoutChunks ==
  { <<Run("a", 2000)>>,
    <<Run("b", 10)>>,
    <<Run("x", 5), Run(WarnGlyph, 2), Run("y", 5)>> }

\* runOpencodeCommand, runClaudeCodeCommand or runCodexCommand is called
\* and returns; a subprocess that was never spawned wrote nothing.
RunSync ==
  /\ relay.caller = "idle"
  /\ ~syncRun.ran
  /\ \E outcome \in Outcomes, stdout \in {<<>>, <<"out">>} :
       /\ outcome = "spawnError" => stdout = <<>>
       /\ syncRun' = [ran |-> TRUE, outcome |-> outcome, stdout |-> stdout,
                      result |-> runCommand(outcome, stdout)]
  /\ UNCHANGED <<proc, relay, time>>
  /\ UNCHANGED routerVars
  /\ UNCHANGED feedbackVars
  /\ UNCHANGED raceVars

\* A forwarding block sets lastUpdate and calls the streaming adapter, which
\* spawns the subprocess and arms the timer.
StartStreaming ==
  /\ relay.caller = "idle"
  /\ ~syncRun.ran
  /\ \E variant \in RelayVariants :
       relay' = [NoRelay EXCEPT !.variant = variant, !.caller = "awaiting",
                                !.lastUpdate = time]
  /\ proc' = [NoProcess EXCEPT !.child = "running", !.timer = "armed", !.started = time]
  /\ UNCHANGED <<time, syncRun>>
  /\ UNCHANGED routerVars
  /\ UNCHANGED feedbackVars
  /\ UNCHANGED raceVars

\* The promise is settled and the awaiting caller has not yet continued:
\* the continuation runs before any other event is handled.
ResumeDue == relay.caller = "awaiting" /\ proc.result.settled

\* child.stdout.on("data")
StdoutData ==
  /\ proc.child = "running"
  /\ ~ResumeDue
  /\ proc.chunks < MaxChunks
  /\ \E chunk \in StdoutChunks : relay' = onChunk(relay, chunk, time)
  /\ proc' = [proc EXCEPT !.chunks = @ + 1]
  /\ UNCHANGED <<time, syncRun>>
  /\ UNCHANGED routerVars
  /\ UNCHANGED feedbackVars
  /\ UNCHANGED raceVars

\* child.stderr.on("data")
StderrData ==
  /\ proc.child = "running"
  /\ ~ResumeDue
  /\ proc.stderr = <<>>
  /\ proc' = [proc EXCEPT !.stderr = StderrRaw]
  /\ UNCHANGED <<relay, time, syncRun>>
  /\ UNCHANGED routerVars
  /\ UNCHANGED feedbackVars
  /\ UNCHANGED raceVars

\* child.on("error"): the subprocess could not be spawned.
ChildError ==
  /\ proc.child = "running"
  /\ ~ResumeDue
  /\ proc.chunks = 0 /\ proc.stderr = <<>> /\ ~proc.killed
  /\ relay' = onChunk(relay, SpawnErrorChunk, time)
  /\ proc' = settle(clearTimeout([proc EXCEPT !.child = "failed"]), "error", SpawnMessage)
  /\ UNCHANGED <<time, syncRun>>
  /\ UNCHANGED routerVars
  /\ UNCHANGED feedbackVars
  /\ UNCHANGED raceVars

\* child.on("close"): the exit code is not 0 for a subprocess that was
\* killed or never spawned.
ChildClose ==
  /\ proc.child \in {"running", "failed"}
  /\ ~ResumeDue
  /\ \E code \in (IF proc.killed \/ proc.child = "failed" THEN {-1} ELSE {0, 1}) :
       \E fails \in {code # 0 /\ proc.stderr # <<>>} :
         /\ relay' = IF fails THEN onChunk(relay, StderrChunk, time) ELSE relay
         /\ proc' = settle(clearTimeout([proc EXCEPT !.child = "closed", !.code = code]),
                           "close", IF fails THEN StderrRaw ELSE <<>>)
  /\ UNCHANGED <<time, syncRun>>
  /\ UNCHANGED routerVars
  /\ UNCHANGED feedbackVars
  /\ UNCHANGED raceVars

\* The callback of setTimeout: kill the subprocess and resolve.
TimerFires ==
  /\ proc.timer = "armed"
  /\ time - proc.started >= OPENCODE_TIMEOUT_MS
  /\ proc' = settle([proc EXCEPT !.timer = "fired", !.killed = TRUE], "timeout", TimedOutText)
  /\ UNCHANGED <<relay, time, syncRun>>
  /\ UNCHANGED routerVars
  /\ UNCHANGED feedbackVars
  /\ UNCHANGED raceVars

\* Time passes: by a small step, or up to the expiry of the timer.
Tick ==
  /\ relay.caller # "idle"
  /\ \E t \in ({time + d : d \in TickSteps} \cap 0..MaxTime)
               \cup {proc.started + OPENCODE_TIMEOUT_MS} :
       /\ t > time
       /\ time' = t
  /\ UNCHANGED <<proc, relay, syncRun>>
  /\ UNCHANGED routerVars
  /\ UNCHANGED feedbackVars
  /\ UNCHANGED raceVars

\* The await of the forwarding block returns: the final edit is made and
\* the empty reply is returned.
CallerResumes ==
  /\ ResumeDue
  /\ relay' = [relay EXCEPT !.caller = "returned",
                            !.edits = @ + 1,
                            !.inFlight = @ \cup {relay.edits + 1},
                            !.shown = display(relay.variant,
                                              sliceLast(relay.fullOutput, DisplayLimit)),
                            !.final = display(relay.variant,
                                              sliceLast(relay.fullOutput, DisplayLimit)),
                            !.lastEditAt = time,
                            !.flush = [done |-> TRUE, at |-> time,
                                       edits |-> relay.edits + 1,
                                       timeDue |-> relay.timeDue,
                                       outOfBand |-> relay.outOfBand,
                                       urgentChunks |-> relay.urgentChunks]]
  /\ UNCHANGED <<proc, time, syncRun>>
  /\ UNCHANGED routerVars
  /\ UNCHANGED feedbackVars
  /\ UNCHANGED raceVars

AdapterNext ==
  \/ RunSync
  \/ StartStreaming
  \/ StdoutData
  \/ StderrData
  \/ ChildError
  \/ ChildClose
  \/ TimerFires
  \/ Tick
  \/ CallerResumes

AdapterSpec == Init /\ [][AdapterNext]_vars

\* The timer callback and the continuation of the caller are run by the
\* event loop once they are due, and time does not stop; a subprocess need
\* not ever write or exit.
AdapterLiveSpec ==
  /\ AdapterSpec
  /\ WF_vars(Tick)
  /\ WF_vars(TimerFires)
  /\ WF_vars(CallerResumes)

\* ---------------------------------------------------------------- the edits of one stream

\* A call of editSlackMessage completes: the chat shows its text. The
\* calls are requests to the chat service that nothing orders.
EditCompletes ==
  /\ ~ResumeDue
  /\ \E id \in relay.inFlight :
       relay' = [relay EXCEPT !.inFlight = @ \ {id}, !.applied = id]
  /\ UNCHANGED <<proc, time, syncRun>>
  /\ UNCHANGED routerVars
  /\ UNCHANGED feedbackVars
  /\ UNCHANGED raceVars

\* The adapter call with the completion of its edits followed.
EditNext == AdapterNext \/ EditCompletes

EditSpec == Init /\ [][EditNext]_vars

\* ---------------------------------------------------------------- properties

\* The backends whose active flag is set in the session record e.
ActiveFlags(e) == {b \in Backends : ModeFlag(e, b)}

\* Equality of two session records in every field except updatedAt.
ModeEq(a, b) == [a EXCEPT !.updatedAt = 0] = [b EXCEPT !.updatedAt = 0]

Replied == pc = "replied"

\* A command handler took the message and parsed it as action.
Handled(action) ==
  /\ Replied
  /\ last.branch \in {"command", "pipelineCommand"}
  /\ last.parsed.action = action
  /\ last.reply # <<"ignored">>

ExitBody == <<"!code", WS, "exit">>

\* C1: at most one of opencodeMode, claudeCodeMode and codexMode is true
\* in the session record, after any sequence of commands and implicit
\* entries.
C1_AtMostOneActiveFlag ==
  /\ Cardinality(ActiveFlags(store)) <= 1
  /\ Cardinality(ActiveFlags(sessionEntry)) <= 1

InvocationsOf(p) == SelectSeq(last.invocations, LAMBDA i : i.purpose = p)

\* The first backend, in the order opencode, claude, codex, whose flag and
\* project directory are set in e.
FirstActive(e) ==
  IF e.opencodeMode /\ e.opencodeProjectDir # <<>> THEN "opencode"
  ELSE IF e.claudeCodeMode /\ e.claudeCodeProjectDir # <<>> THEN "claude"
  ELSE IF e.codexMode /\ e.codexProjectDir # <<>> THEN "codex"
  ELSE "none"

\* The message is one for the forwarding step: a backend is active with
\* its directory, no implicit entry fired, and the body is not empty, not
\* a !code or !rate command and does not start with "/".
Forwardable ==
  /\ Replied
  /\ FirstActive(last.pre) # "none"
  /\ last.branch \notin {"implicit", "command", "rate"}
  /\ msg.body # <<>>
  /\ ~startsWith(msg.body, "/")

C3_NextForwardUsesAgentAndModel ==
  LET t == ForwardTarget(store)
  IN /\ (Handled("switch") /\ last.saves > 0) =>
          /\ t = ForwardTarget(last.pre)
          /\ ForwardAgent(store, t) = last.parsed.value
     /\ (Handled("model") /\ last.saves > 0) =>
          /\ t = ForwardTarget(last.pre)
          /\ ModelOf(store, t) = last.parsed.value

\* C4: a switch or model command issued while claude or codex is active
\* and opencode, the backend of the command, is not, is rejected with the
\* not-in-mode error; the session record does not change and nothing is
\* written to the store.
C4_RejectedUnderOtherBackend ==
  ((Handled("switch") \/ Handled("model"))
   /\ ActiveFlags(last.pre) # {} /\ ~last.pre.opencodeMode) =>
    /\ last.reply[1] = "notInMode"
    /\ last.saves = 0
    /\ sessionEntry = last.pre /\ store = last.pre

\* C5: a switch or model command issued while no backend is active
\* changes no field of the session record, writes nothing to the store
\* and returns the not-in-mode error.
C5_RejectedWhenNoneActive ==
  ((Handled("switch") \/ Handled("model")) /\ ActiveFlags(last.pre) = {}) =>
    /\ last.reply[1] = "notInMode"
    /\ last.saves = 0
    /\ sessionEntry = last.pre /\ store = last.pre

C5_Witness ==
  /\ Handled("model")
  /\ ActiveFlags(last.pre) = {}
  /\ last.parsed.value = <<"m1">>
  /\ last.reply[1] = "notInMode"
  /\ store.updatedAt > 0

\* C6: an exit command, from any state, leaves all three flags false and
\* every backend field of every backend cleared, and the cleared record is
\* written to the store.
C6_ExitClearsEverything ==
  Handled("exit") =>
    /\ ActiveFlags(sessionEntry) = {}
    /\ ModeEq(sessionEntry, EmptyEntry)
    /\ last.saves = 1
    /\ store = sessionEntry
    /\ store.updatedAt = clock

C6_Witness ==
  /\ Handled("exit")
  /\ Cardinality(ActiveFlags(last.pre)) = 2
  /\ last.pre.opencodeModel # <<>>
  /\ ModeEq(store, EmptyEntry)

\* C7: an enter command with a resolvable path makes opencode the one
\* active backend, sets its project directory to the resolved path, keeps
\* the agent (the default agent if none was set), recomputes the response
\* prefix, writes the record to the store and replies with the entry.
C7_EnterActivatesTarget ==
  (Handled("enter") /\ validateProjectDir(last.parsed.value) # Undefined) =>
    LET dir == validateProjectDir(last.parsed.value)
        agent == IF last.pre.opencodeAgent # <<>> THEN last.pre.opencodeAgent
                 ELSE DEFAULT_OPENCODE_AGENT
    IN /\ ActiveFlags(store) = {"opencode"}
       /\ currentModeOf(store) = "opencode"
       /\ store.opencodeProjectDir = dir /\ isAbsolute(dir)
       /\ store.opencodeAgent = agent
       /\ store.opencodeResponsePrefix = responsePrefixText("opencode", getRepoName(dir), agent)
       /\ last.saves = 1 /\ store = sessionEntry
       /\ last.reply[1] = "entered" /\ last.reply[2] = dir

\* C8: the resolver returns null for the empty and the whitespace-only
\* paths and for no other, and an enter command with such a path changes
\* no field of the session record, writes nothing to the store and
\* returns the invalid-project-directory error.
C8_UnresolvableEnterChangesNothing ==
  /\ \A v \in PathInputs : (validateProjectDir(v) = Undefined) <=> (trim(v) = <<>>)
  /\ (Handled("enter") /\ trim(last.parsed.value) = <<>>) =>
       /\ last.reply = <<"invalidDir">>
       /\ last.saves = 0
       /\ sessionEntry = last.pre /\ store = last.pre
  /\ (Handled("enter") /\ trim(last.parsed.value) # <<>>) => last.reply[1] = "entered"

C8_Witness ==
  /\ Handled("enter")
  /\ last.parsed.value = <<WS, WS>>
  /\ last.pre.opencodeMode /\ last.pre.opencodeModel # <<>>
  /\ last.reply = <<"invalidDir">>
  /\ store = last.pre

\* The session record after an exit command handled on the stored record.
AfterExit == handleOpencodeCommandDirect(store, ExitBody, clock).entry

\* C9, as stated: from every reachable state, enter and then exit give
\* the session record of before the enter in every field but updatedAt.
C9_EnterExitRestores ==
  (Handled("enter") /\ last.reply[1] = "entered") => ModeEq(AfterExit, last.pre)

\* C9, amended: from every reachable state in which no backend is active,
\* enter with a resolvable path and then exit give the session record of
\* before the enter in every field but updatedAt.
C9_EnterExitRestoresFromNone ==
  (Handled("enter") /\ last.reply[1] = "entered" /\ ActiveFlags(last.pre) = {}) =>
    /\ ModeEq(AfterExit, last.pre)
    /\ ~ModeEq(store, last.pre)

C9_Witness ==
  /\ Handled("enter")
  /\ last.reply[1] = "entered"
  /\ ActiveFlags(last.pre) = {}
  /\ last.pre.updatedAt > 0
  /\ store.opencodeMode
  /\ ModeEq(AfterExit, last.pre)

\* C10: in every reachable state a backend whose active flag is true has
\* a project directory that is not empty.
C10_ActiveHasProjectDir ==
  \A b \in Backends :
    /\ ModeFlag(store, b) => ProjectDirOf(store, b) # <<>>
    /\ ModeFlag(sessionEntry, b) => ProjectDirOf(sessionEntry, b) # <<>>

\* An implicit entry from no mode whose project the workspace does not
\* hold: the flag of the label's backend is set with the directory that
\* validateProjectDir gave.
C10_Witness ==
  /\ Replied
  /\ last.branch = "implicit"
  /\ ActiveFlags(last.pre) = {}
  /\ \E b \in Backends :
       /\ ActiveFlags(store) = {b}
       /\ ProjectDirOf(store, b) = validateProjectDir(channelNameMatch(msg.label).projectName)
       /\ ProjectDirOf(store, b) # <<>>

\* C11: in every reachable state with a backend active, the stored
\* response prefix of the active backend is "[backend:project|agent]" for
\* that backend, the name of its project directory and its agent.
C11_ResponsePrefixCurrent ==
  LET t == FirstActive(store)
  IN t # "none" =>
       ResponsePrefixOf(store, t) =
         responsePrefixText(t, getRepoName(ProjectDirOf(store, t)), AgentOf(store, t))

\* An implicit entry fired for the label of the message.
ImplicitFired == Replied /\ last.branch = "implicit"

\* C12: when a label of the convention fires an implicit entry, the
\* backend of the label becomes the one active backend, and its project
\* directory is the project name under the workspace root if that
\* directory exists, else what validateProjectDir gives for the name.
C12_ImplicitEntryResolvesProject ==
  ImplicitFired =>
    LET m == channelNameMatch(msg.label)
    IN /\ ActiveFlags(store) = {m.mode}
       /\ ProjectDirOf(store, m.mode) \in
            {pathJoin(WorkspaceDir, m.projectName), validateProjectDir(m.projectName)}

\* An implicit entry that ran a migration has replied.
Migrated == ImplicitFired /\ last.migration.ran

\* The backends other than b that are active in e with a project directory.
OthersActive(e, b) == {a \in ActiveFlags(e) \ {b} : ProjectDirOf(e, a) # Undefined}

\* C13: when an implicit entry for backend B fires while a different
\* backend A is active with a project directory, exactly one process is
\* started, on A, with the plan agent, the hand-off prompt and the project
\* directory of A; while that process runs the stored and the in-memory
\* mode fields are those from before the message, and after the file write
\* B is the only active backend.
C13_MigrationBeforeSwitch ==
  /\ pc = "migrating" =>
        /\ store = last.pre /\ sessionEntry = last.pre
        /\ Len(last.invocations) = 1
  /\ \A a \in OthersActive(last.pre, channelNameMatch(msg.label).mode) :
        (pc = "migrating" \/ ImplicitFired) =>
          /\ Len(last.invocations) = 1
          /\ LET i == last.invocations[1]
                 b == channelNameMatch(msg.label).mode
             IN /\ i.backend = a
                /\ i.agent = <<"plan">>
                /\ i.message = MigrationPrompt(b)
                /\ i.projectDir = ProjectDirOf(last.pre, a)
                /\ ImplicitFired => last.migration.ran /\ ActiveFlags(store) = {b}

\* C14: every migration writes its file at
\* <oldProjectDir>/.handclaw/migration_from_<previousBackend>.md, where
\* oldProjectDir is the project directory of the backend that was active
\* before the switch.
C14_MigrationFileUnderOldProject ==
  Migrated =>
    last.migration.file =
      MigrationPath(ProjectDirOf(last.pre, last.migration.from), last.migration.from)

\* The outcomes of a process that count as failed, and the error text of
\* each.
FailedOutcomes == {"spawnError", "timeout", "exitStderr"}

ErrorTextOf(outcome) ==
  CASE outcome = "timeout" -> TimedOutText
    [] outcome = "spawnError" -> SpawnErrorText
    [] outcome = "exitStderr" -> StderrText

\* part occurs in text.
Contains(text, part) ==
  \E i \in 1..(Len(text) - Len(part) + 1) : SubSeq(text, i, i + Len(part) - 1) = part

\* The migration process of the message failed.
MigrationFailed == Migrated /\ last.invocations[1].outcome \in FailedOutcomes

\* C15: when the process of the migration fails (spawn failure, timeout,
\* exit with stderr), streamed or not, the backend of the label still
\* becomes the active one and the migration file holds the error text.
C15_FailedMigrationStillSwitches ==
  MigrationFailed =>
    /\ ActiveFlags(store) = {last.migration.to}
    /\ Contains(last.migration.content, ErrorTextOf(last.invocations[1].outcome))

\* The session record e was cleared by an accepted exit command and no
\* mode was entered since: every other write of the record leaves a flag
\* set.
SinceExit(e) == ModeEq(e, EmptyEntry) /\ e.updatedAt > 0

\* The body is not a command: neither the "!code" prefix nor "!rate".
NonCommand(body) ==
  /\ ~startsWith(toLowerCase(trim(body)), commandPrefix)
  /\ ~isRateCommand(trim(body))

\* A message that is not a command was answered, the first change of the
\* record before it being an exit.
AnsweredAfterExit == Replied /\ SinceExit(last.pre) /\ NonCommand(msg.body)

\* C16, as stated: after an accepted exit, a message that is not a command
\* goes to the normal agent pipeline and no backend process is started,
\* as long as no enter command was issued.
C16_PipelineAfterExit ==
  AnsweredAfterExit =>
    /\ last.branch = "pipeline"
    /\ last.invocations = <<>>
    /\ store = last.pre

\* C16, amended: after an accepted exit, a message that is not a command
\* starts no backend process; it goes to the normal agent pipeline and
\* leaves the record as it is, unless its channel label follows the naming
\* convention and resolves to a project directory, and then the implicit
\* entry of the label answers it.
C16_PipelineAfterExitUnlessLabel ==
  AnsweredAfterExit =>
    LET m == channelNameMatch(msg.label)
    IN /\ last.invocations = <<>>
       /\ last.branch \in {"pipeline", "implicit"}
       /\ last.branch = "pipeline" =>
             /\ store = last.pre
             /\ m.matched => validateProjectDir(m.projectName) = Undefined
       /\ last.branch = "implicit" =>
             /\ m.matched
             /\ ActiveFlags(store) = {m.mode}

C16_Witness ==
  /\ AnsweredAfterExit
  /\ msg.body = <<"hello">>
  /\ msg.label = <<"#", "claude", "-", WS>>
  /\ last.branch = "pipeline"
  /\ last.pipeline
  /\ ActiveFlags(store) = {}

C18_StreamingSettlesOnce ==
  /\ (relay.caller = "awaiting") ~> (relay.caller = "returned")
  /\ [][proc.result.settled =>
          proc'.result = proc.result /\ proc'.settledBy = proc.settledBy]_vars
  /\ [][(~proc.result.settled /\ proc'.result.settled) =>
          \/ proc'.settledBy = "close" /\ proc.child # "closed" /\ proc'.child = "closed"
          \/ proc'.settledBy = "error" /\ proc.child = "running" /\ proc'.child = "failed"
          \/ proc'.settledBy = "timeout" /\ proc.timer = "armed" /\ proc'.timer = "fired"]_vars
  /\ [][(~proc.killed /\ proc'.killed) =>
          /\ proc.timer = "armed" /\ proc'.timer = "fired"
          /\ time - proc.started >= OPENCODE_TIMEOUT_MS]_vars

C18_Witness ==
  /\ relay.caller = "returned"
  /\ proc.settledBy = "timeout"
  /\ proc.result.error = TimedOutText
  /\ proc.child = "closed"
  /\ proc.resolveCalls = 2

\* text ends with part.
EndsWith(text, part) ==
  /\ Len(text) >= Len(part)
  /\ SubSeq(text, Len(text) - Len(part) + 1, Len(text)) = part

\* A message was forwarded and the process of the backend failed.
ForwardFailed ==
  /\ Replied
  /\ last.branch = "forward"
  /\ InvocationsOf("forward")[1].outcome \in FailedOutcomes

\* C19: when the process of a forwarded message ends in a spawn failure,
\* a timeout or an exit with stderr, the text shown at the end (the reply
\* text, or the last edit of the relayed message) ends with a line break
\* and the error text of that failure.
C19_FailedForwardShowsError ==
  ForwardFailed =>
    EndsWith(last.reply[3], <<"\n">> \o ErrorTextOf(InvocationsOf("forward")[1].outcome))

\* x is t without some of its first characters.
IsSuffix(x, t) ==
  \/ x = <<>>
  \/ \E i \in 1..Len(t) :
       /\ t[i].n >= x[1].n
       /\ concat(IF t[i].n = x[1].n THEN SubSeq(t, 1, i - 1)
                 ELSE Append(SubSeq(t, 1, i - 1), Run(t[i].c, t[i].n - x[1].n)),
                 x) = t

\* x is the last k characters of t, all of t if it has fewer.
LastChars(x, t, k) ==
  IF length(t) <= k THEN x = t ELSE length(x) = k /\ IsSuffix(x, t)

\* The text x is the response prefix, a line break and body.
Prefixed(x, body) == x = concat(concat(RelayPrefix, <<Run("\n", 1)>>), body)

\* C20: for the chunk delivered last to the relay, an edit was made at
\* that chunk exactly if at least 1000 ms had passed since the last edit
\* (since the start before the first) or the chunk holds the error or the
\* warning glyph; the edit shows the response prefix, a line break and the
\* last 3000 characters of all output received so far.
C20_RelayFlushPolicy ==
  relay.lastChunk.delivered =>
    /\ relay.lastChunk.edited <=>
          \/ relay.lastChunk.at - relay.lastChunk.since >= FlushIntervalMs
          \/ includes(relay.lastChunk.chunk, ErrorGlyph)
          \/ includes(relay.lastChunk.chunk, WarnGlyph)
    /\ relay.lastChunk.edited =>
          \E body \in {sliceLast(relay.fullOutput, DisplayLimit)} :
            /\ LastChars(body, relay.fullOutput, DisplayLimit)
            /\ Prefixed(relay.lastChunk.edit, body)

\* The caller of the streaming adapter has made its final edit.
Returned == relay.caller = "returned"

\* C21: once the stream has completed, the final edit is the last edit of
\* the message and shows the last 3000 characters of every chunk passed to
\* onChunk by the adapter call, in the order of delivery.
C21_FinalFlushShowsAll ==
  Returned =>
    /\ relay.shown = relay.final
    /\ \E body \in {sliceLast(relay.fullOutput, DisplayLimit)} :
         /\ LastChars(body, relay.fullOutput, DisplayLimit)
         /\ relay.final = display(relay.variant, body)

\* ceil(a / b) for b > 0
ceilDiv(a, b) == (a + b - 1) \div b

\* C22 as stated: at the final flush the relay has made ceil(stream duration
\* / 1 s) edits, one more if an urgent chunk was flushed out of band, and the
\* final one.
C22_EditCountByDuration ==
  relay.flush.done =>
    relay.flush.edits = ceilDiv(relay.flush.at - proc.started, FlushIntervalMs)
                        + (IF relay.flush.outOfBand > 0 THEN 1 ELSE 0) + 1

\* C22: at the final flush the relay has made one edit for each chunk
\* delivered 1 s or more after the previous chunk edit (or the start), one for
\* each chunk with an urgent marker delivered earlier than that, and the
\* final one; the chunks decide the number, whatever the duration.
C22_EditCountByChunks ==
  relay.flush.done =>
    /\ relay.flush.edits = relay.flush.timeDue + relay.flush.outOfBand + 1
    /\ relay.flush.timeDue <= (relay.flush.at - proc.started) \div FlushIntervalMs

\* A stream of 300 s whose only edits are one out of band and the final one.
C22_Witness ==
  /\ relay.flush.done
  /\ relay.flush.at - proc.started >= OPENCODE_TIMEOUT_MS
  /\ relay.flush.outOfBand = 1
  /\ relay.flush.edits = 2

\* The last chunk was edited into the message by the time gate alone.
TimeGateEdit ==
  /\ relay.lastChunk.delivered
  /\ relay.lastChunk.edited
  /\ ~urgent(relay.lastChunk.chunk)

\* C23: an edit caused by the time gate comes 1 s or more after the previous
\* edit of the stream, and the edits of a stream number at most the whole
\* seconds elapsed plus the urgent chunks plus 1.
C23_EditFrequencyBound ==
  /\ (TimeGateEdit /\ relay.lastChunk.afterEdit) =>
       relay.lastChunk.at - relay.lastChunk.previousEdit >= FlushIntervalMs
  /\ relay.edits <= (time - proc.started) \div FlushIntervalMs + relay.urgentChunks + 1

\* The handling of the message saved the session record and the write of
\* the store did not take place.
WriteFailed == pc = "replied" /\ last.saves > 0 /\ store # sessionEntry

\* C24: when the write of the session store fails during an accepted command
\* or an implicit entry, the handler does not raise, the session record in
\* memory holds the new mode state and the reply is the normal reply of the
\* command.
C24_WriteFailureSwallowed ==
  WriteFailed =>
    /\ last.reply # Raised
    /\ \E wsExists \in BOOLEAN :
         \E r \in {getReplyFromConfig(last.pre, msg.label, msg.body,
                                      Env(wsExists, FALSE, QuietRun, 0, "ok", TRUE, TRUE),
                                      clock)} :
           /\ sessionEntry = r.entry
           /\ last.reply = r.reply

\* The replies of the accepted commands and of a rejected one.
AcceptedReplies == {"entered", "agentSet", "modelSet", "modelCleared", "exited"}
RejectedReplies == {"invalidDir", "notInMode", "ignored"}

\* The message was a mode command that was accepted, or fired an implicit
\* entry.
AcceptedMutation ==
  \/ ImplicitFired
  \/ /\ Replied
     /\ last.branch \in {"command", "pipelineCommand"}
     /\ last.reply[1] \in AcceptedReplies

\* The message was a mode command that was rejected.
RejectedCommand ==
  /\ Replied
  /\ last.branch \in {"command", "pipelineCommand"}
  /\ last.reply[1] \in RejectedReplies

\* C25: an accepted mode mutation saves the session record exactly once,
\* after all its field changes, so that the store holds the record of
\* before the transition or the record after it and nothing in between; a
\* changed record is always saved, a rejected command saves nothing.
C25_OneSavePerMutation ==
  /\ last.saves \in {0, 1}
  /\ pc \in {"handling", "migrating"} => store = sessionEntry
  /\ Replied => store \in {last.pre, sessionEntry}
  /\ AcceptedMutation => last.saves = 1
  /\ (AcceptedMutation /\ last.reply # Raised) => store = sessionEntry
  /\ (Replied /\ sessionEntry # last.pre) => last.saves = 1
  /\ RejectedCommand => last.saves = 0 /\ store = last.pre /\ sessionEntry = last.pre

\* A switch command changed the agent of the record, which the store holds.
C25_Witness ==
  /\ AcceptedMutation
  /\ last.reply[1] = "agentSet"
  /\ last.pre.opencodeAgent # sessionEntry.opencodeAgent
  /\ store = sessionEntry

\* An implicit entry with a migration and an explicit command that arrived
\* during the migration and was accepted have both completed.
BothCompleted ==
  /\ Migrated
  /\ other.done
  /\ other.branch = "command"
  /\ other.reply[1] \in AcceptedReplies

\* C26: when an implicit entry and an explicit command of the same session
\* arrive in quick succession, the stored mode state after both have
\* completed is the one of handling them in the order of arrival: the
\* command, which arrived later, on the record the implicit entry left.
C26_ArrivalOrderWins ==
  BothCompleted =>
    \E wsExists \in BOOLEAN :
      ModeEq(store,
             getReplyFromConfig(sessionEntry, other.label, other.body,
                                Env(wsExists, FALSE, QuietRun, 0, "ok", TRUE, TRUE),
                                clock).entry)

\* parseOpencodeCommand has returned the command of the body.
Parsed == pc = "replied" /\ last.branch = "parsed"

\* The body begins, trimmed and in lower case, with the atom a.
BeginsWith(body, a) == startsWith(toLowerCase(trim(body)), a)

\* The body begins with a and whitespace.
BeginsWithWord(body, a) ==
  /\ BeginsWith(body, a)
  /\ Len(trim(body)) >= 2
  /\ trim(body)[2] = WS

\* What follows the first atom of the trimmed body, trimmed.
Remainder(body) == trim(Tail(trim(body)))

ParserActions == {"none", "exit", "switch", "model", "enter", "plan", "build"}

FirstBreak(t) ==
  CHOOSE k \in 1..(Len(t) + 1) :
    /\ k = Len(t) + 1 \/ t[k] = WS
    /\ \A j \in 1..(k - 1) : t[j] # WS

\* The verb of a body with the prefix, in lower case, and what follows it.
Verb(body) ==
  toLowerCase(SubSeq(Remainder(body), 1, FirstBreak(Remainder(body)) - 1))

Argument(body) ==
  trim(SubSeq(Remainder(body), FirstBreak(Remainder(body)), Len(Remainder(body))))

\* t with every run of whitespace replaced by one space.
Squeeze(t) ==
  LET keep == {i \in 1..Len(t) : ~(t[i] = WS /\ i > 1 /\ t[i - 1] = WS)}
  IN [j \in 1..Cardinality(keep) |->
        t[CHOOSE i \in keep : Cardinality({x \in keep : x <= i}) = j]]

\* A body that begins with the prefix was parsed.
ParsedPrefixed == Parsed /\ BeginsWith(msg.body, commandPrefix)

\* C28 as stated: the command of a body with the prefix follows the ordered
\* rules, with the argument and the remainder as they were written.
C28_OrderedRulesVerbatim ==
  ParsedPrefixed =>
    last.parsed =
      IF Remainder(msg.body) = <<>> THEN NoCommand
      ELSE IF Verb(msg.body) = <<"exit">> THEN [action |-> "exit", value |-> <<>>]
      ELSE IF Verb(msg.body) = <<"switch">>
      THEN [action |-> "switch",
            value |-> orElse(Argument(msg.body), DEFAULT_OPENCODE_AGENT)]
      ELSE IF Verb(msg.body) = <<"model">>
      THEN [action |-> "model", value |-> Argument(msg.body)]
      ELSE [action |-> "enter", value |-> Remainder(msg.body)]

\* C28: the command of a body with the prefix follows the ordered rules:
\* nothing after the prefix gives {none, ""}; the verb exit gives {exit, ""};
\* switch gives the argument or the default agent; model gives the argument,
\* which may be empty; anything else gives {enter, remainder}.  Prefix and
\* verb are matched without regard to case, the argument keeps its casing,
\* and each run of whitespace in the argument or the remainder is one space
\* in the value.
C28_OrderedRules ==
  ParsedPrefixed =>
    last.parsed =
      IF Remainder(msg.body) = <<>> THEN NoCommand
      ELSE IF Verb(msg.body) = <<"exit">> THEN [action |-> "exit", value |-> <<>>]
      ELSE IF Verb(msg.body) = <<"switch">>
      THEN [action |-> "switch",
            value |-> orElse(Squeeze(Argument(msg.body)), DEFAULT_OPENCODE_AGENT)]
      ELSE IF Verb(msg.body) = <<"model">>
      THEN [action |-> "model", value |-> Squeeze(Argument(msg.body))]
      ELSE [action |-> "enter", value |-> Squeeze(Remainder(msg.body))]

\* Prefix and verb in capitals, and an argument with a capital that is kept.
C28_Witness ==
  /\ ParsedPrefixed
  /\ msg.body = <<"!CODE", WS, "Switch", WS, "Arg">>
  /\ last.parsed = [action |-> "switch", value |-> <<"Arg">>]

\* calculateAutoLevel has returned.
Rated == feedback.op.name = "rate"

\* The counters calculateAutoLevel worked with: those of the file, or 1
\* request and nothing accepted where there was no file.
RatedRequests == IF feedback.op.before.exists THEN feedback.op.before.requests ELSE 1

RatedAccepted == IF feedback.op.before.exists THEN feedback.op.before.accepted ELSE 0

\* The number of the level of the ratio accepted / requests: how many of
\* the thresholds 0.1, 0.2, 0.4 and 0.8 the ratio exceeds.
RatioLevelNumber(accepted, requests) ==
  Cardinality({t \in {1, 2, 4, 8} : 10 * accepted > t * requests})

\* The number of the highest level that the volume of requests allows.
VolumeCapNumber(requests) ==
  IF requests < 20 THEN 0 ELSE IF requests < 50 THEN 1 ELSE IF requests < 100 THEN 2 ELSE 4

LevelNumber(level) == CHOOSE n \in 0..4 : AutoLevels[n + 1] = level

\* C29: calculateAutoLevel returns the lower of the level of the ratio
\* accepted / requests (requests 1 where absent) and the cap of the volume
\* of requests, and the percentage rounded to a nearest integer; (10, 5)
\* gives l0 and (120, 100) gives l4 with 83 percent.
C29_AutoLevel ==
  Rated =>
    /\ feedback.op.result.totalRequests = RatedRequests
    /\ feedback.op.result.totalAccepted = RatedAccepted
    /\ LevelNumber(feedback.op.result.level)
         = Min(RatioLevelNumber(RatedAccepted, RatedRequests),
               VolumeCapNumber(RatedRequests))
    /\ RatedRequests > 0 =>
         /\ 2 * RatedRequests * feedback.op.result.percentage
              <= 200 * RatedAccepted + RatedRequests
         /\ 2 * RatedRequests * feedback.op.result.percentage
              >= 200 * RatedAccepted - RatedRequests
    /\ (RatedRequests = 10 /\ RatedAccepted = 5) => feedback.op.result.level = "l0"
    /\ (RatedRequests = 120 /\ RatedAccepted = 100) =>
         feedback.op.result.level = "l4" /\ feedback.op.result.percentage = 83

\* 120 requests with 100 accepted were rated l4 with 83 percent.
C29_Witness ==
  /\ Rated
  /\ feedback.op.before = FeedbackFile(120, 100)
  /\ feedback.op.result.level = "l4"
  /\ feedback.op.result.percentage = 83

\* recordUserInstruction has returned.
Recorded == feedback.op.name = "record"

\* The counters of a feedback file; a file that is not there counts 0.
CodingRequests(file) == IF file.exists THEN file.requests ELSE 0

CodesAccepted(file) == IF file.exists THEN file.accepted ELSE 0

\* The integer a pattern found in the response, 0 where it found none.
ParsedFrom(found) == IF found >= 0 THEN found ELSE 0

\* C30: recording an instruction appends one entry to the log and
\* summarizes exactly when the log then has more than 500 lines; the
\* summarization adds the two integers parsed from the response to the
\* counters of the feedback file and clears the log; the counters never
\* decrease.
C30_CountersOnlyGrow ==
  /\ [](Recorded =>
          /\ feedback.op.summarized
               <=> feedback.op.linesBefore + LinesPerEntry > InstructionLogThreshold
          /\ feedback.lines = IF feedback.op.summarized THEN 0
                              ELSE feedback.op.linesBefore + LinesPerEntry
          /\ CodingRequests(feedback.file)
               = CodingRequests(feedback.op.before)
                 + (IF feedback.op.summarized THEN ParsedFrom(feedback.op.response.requests)
                    ELSE 0)
          /\ CodesAccepted(feedback.file)
               = CodesAccepted(feedback.op.before)
                 + (IF feedback.op.summarized THEN ParsedFrom(feedback.op.response.accepted)
                    ELSE 0))
  /\ [][/\ CodingRequests(feedback'.file) >= CodingRequests(feedback.file)
         /\ CodesAccepted(feedback'.file) >= CodesAccepted(feedback.file)]_vars
\* C31: a feedback file written with coding_requests n and codes_accepted
\* m, for any non-negative integers n and m, is read back by
\* updateUserFeedback and by calculateAutoLevel as exactly (n, m).
FileRead == feedback.written.state = "read"

C31_FeedbackRoundTrips ==
  FileRead =>
    /\ feedback.written.forLevel.totalRequests = feedback.written.codingRequests
    /\ feedback.written.forLevel.totalAccepted = feedback.written.codesAccepted
    /\ feedback.written.forUpdate.existingCodingRequests = feedback.written.codingRequests
    /\ feedback.written.forUpdate.existingCodesAccepted = feedback.written.codesAccepted

\* C32: a message "!plan <msg>" runs <msg> on the backend of the session
\* with the agent plan and "!build <msg>" runs it with the agent build,
\* whatever agent the session has stored.
OneShot ==
  /\ Replied
  /\ msg.body \in OneShotBodies
  /\ ForwardTarget(last.pre) # "none"
  /\ last.branch # "implicit"

C32_OneShotAgent ==
  OneShot =>
    \E i \in 1..Len(last.invocations) :
      /\ last.invocations[i].purpose = "forward"
      /\ last.invocations[i].backend = ForwardTarget(last.pre)
      /\ last.invocations[i].message = <<"hello">>
      /\ last.invocations[i].agent =
           <<IF BeginsWith(msg.body, "!plan") THEN "plan" ELSE "build">>

\* C33: a mode command (enter, switch, model, exit) of a sender who is not
\* authorized is ignored on every path to the command logic: the mode
\* state is not changed, the store is not written and there is no reply.
ModeActions == {"enter", "switch", "model", "exit"}

ModeCommandHandled ==
  /\ Replied
  /\ last.branch \in {"command", "pipelineCommand"}
  /\ last.parsed.action \in ModeActions

C33_UnauthorizedIgnored ==
  ModeCommandHandled =>
    /\ sessionEntry = last.pre
    /\ last.saves = 0
    /\ last.reply = <<"ignored">>

\* C34: a channel_rename event for a channel whose session has a backend
\* mode active changes only the label of the session (to "#" + the new
\* name) and updatedAt, every mode field staying as it was; a session with
\* no active mode is not written; and the next inbound message of the
\* session, where the new name follows the label pattern of a backend that
\* is not active, runs the migration and ends with that backend active.
Renamed == event.kind = "renamed" /\ event.next = "awaited"

RenamedTo == channelNameMatch(<<"#">> \o event.channelName)

AnsweredAfterRename ==
  /\ Replied
  /\ event.next = "handling"
  /\ event.written
  /\ RenamedTo.matched
  /\ ~ModeFlag(last.pre, RenamedTo.mode)

C35_NoChunkAfterReturn == [][Returned => relay' = relay]_vars

\* C36: at most one edit call of a stream is in flight at any time: an
\* edit issued from a chunk callback has completed before the next edit,
\* the final flush included, is issued; so the edits reach the chat in the
\* order of issue and the last edit applied is the final flush.
EditsInFlight == Cardinality(relay.inFlight)

C36_OneEditInFlight ==
  /\ [](EditsInFlight <= 1)
  /\ [][relay.applied' >= relay.applied]_vars
  /\ [](Returned /\ relay.inFlight = {} => relay.applied = relay.flush.edits)

\* C37: the message that fires an implicit entry is answered with the
\* entry confirmation only: its text is neither forwarded to a backend nor
\* passed to the normal agent pipeline, and forwarding starts with the
\* next message.
NextMessage == <<"next">>

AfterImplicit ==
  getReplyFromConfig(sessionEntry, msg.label, NextMessage,
                     Env(FALSE, FALSE, QuietRun, 0, "ok", TRUE, TRUE), clock)

C37_ImplicitEntryAnswersAlone ==
  ImplicitFired =>
    /\ last.reply[1] = "implicitEntered"
    /\ ~last.pipeline
    /\ \A i \in 1..Len(last.invocations) :
         /\ last.invocations[i].purpose = "migrate"
         /\ last.invocations[i].message = MigrationPrompt(channelNameMatch(msg.label).mode)
    /\ AfterImplicit.branch = "forward"
    /\ Len(AfterImplicit.invocations) = 1
    /\ AfterImplicit.invocations[1].purpose = "forward"
    /\ AfterImplicit.invocations[1].backend = channelNameMatch(msg.label).mode
    /\ AfterImplicit.invocations[1].message = NextMessage

C37_Witness ==
  /\ ImplicitFired
  /\ msg.body = <<"hello">>
  /\ last.pre.opencodeMode
  /\ Len(last.invocations) = 1
  /\ sessionEntry.claudeCodeMode

\* C38: while the channel label names backend X and the session is
\* already in mode X, an inbound message never fires an implicit entry or
\* a migration: the label check changes no mode field and writes nothing,
\* and the message goes on to command handling or forwarding.
LabelMode == channelNameMatch(msg.label).mode

InModeOfLabel(e) ==
  /\ channelNameMatch(msg.label).matched
  /\ ModeFlag(e, LabelMode)
  /\ currentModeOf(e) = LabelMode

C38_NoEntryInModeOfLabel ==
  /\ pc = "migrating" => ~InModeOfLabel(sessionEntry)
  /\ Replied /\ InModeOfLabel(last.pre) =>
       /\ last.branch \in {"command", "rate", "forward", "pipeline", "pipelineCommand"}
       /\ ~last.migration.ran
       /\ InvocationsOf("migrate") = <<>>
       /\ last.branch \notin {"command", "pipelineCommand"} =>
            /\ sessionEntry = last.pre
            /\ last.saves = 0

\* C39: the trigger of the entry point and the prefix of the parser agree:
\* a message the entry point of get-reply.ts hands to
\* handleOpencodeCommandDirect is answered by the direct handler, the
\* trigger followed by "exit" is parsed as exit, the trigger followed by a
\* path is parsed as enter, and neither gets the help text.
AfterTrigger == trim(Tail(trim(msg.body)))

TriggerExit == isOcCommand(trim(msg.body)) /\ toLowerCase(AfterTrigger) = <<"exit">>

TriggerPath ==
  /\ isOcCommand(trim(msg.body))
  /\ AfterTrigger # <<>>
  /\ toLowerCase(split(AfterTrigger, WS)[1]) \notin {<<"exit">>, <<"switch">>, <<"model">>}

C39_TriggerAndPrefixAgree ==
  Replied /\ isOcCommand(trim(msg.body)) =>
    /\ last.branch = "command"
    /\ TriggerExit => last.parsed.action = "exit"
    /\ TriggerPath => last.parsed.action = "enter"
    /\ (TriggerExit \/ TriggerPath) => last.reply # <<"help">>

\* C40: calculateAutoLevel only reads the feedback file: a step of an
\* autonomy-level query, the write it started included, leaves the
\* persisted counters as they were, and a recorded instruction adds to them
\* what its summarization parsed, so that the counters are the sums of the
\* parsed counts whether or not the file existed at a query.
QueryStep == feedback'.op.name \in {"rate", "initWrite", "initWriteFailed"}

SummarizationAdds ==
  feedback'.op.name = "record" =>
    /\ CodingRequests(feedback'.file)
         = CodingRequests(feedback.file)
           + (IF feedback'.op.summarized THEN ParsedFrom(feedback'.op.response.requests)
              ELSE 0)
    /\ CodesAccepted(feedback'.file)
         = CodesAccepted(feedback.file)
           + (IF feedback'.op.summarized THEN ParsedFrom(feedback'.op.response.accepted)
              ELSE 0)

C40_QueryOnlyReads ==
  [][/\ QueryStep => /\ CodingRequests(feedback'.file) = CodingRequests(feedback.file)
                     /\ CodesAccepted(feedback'.file) = CodesAccepted(feedback.file)
     /\ SummarizationAdds]_vars

====
